---------------------------- MODULE Spec2Model ----------------------------
(***************************************************************************)
(* Crossy Chain (sama5657/Linera-CrossyChain): the input recorder, the     *)
(* replay codec, the replay viewer and the game's lane/move logic, as      *)
(* state machines translated from the TypeScript sources.                  *)
(*                                                                         *)
(*   client/src/lib/GameInputRecorder.ts   recorder and codec              *)
(*   client/src/components/CrossyGame.tsx  lanes, move(), animate()        *)
(*   client/src/components/ReplayViewer.tsx replay retrieval and playback  *)
(***************************************************************************)
EXTENDS Integers, Sequences, FiniteSets, TLC

(***************************************************************************)
(* Bounds of the model (not program constants).                            *)
(***************************************************************************)
\* calls made on one recorder in a run
MaxCalls == 4
\* the monotonic clock runs from 0 to MaxPerf ticks
MaxPerf == 2
\* performance.now() is fractional: ticks per millisecond
TicksPerMs == 2
\* Date.now() reads 1 or MaxWall (the wall clock may jump either way)
MaxWall == 2
\* the explicit seeds passed to start are 0 and MaxSeed
MaxSeed == 1
\* the final scores passed to stop are 0 and MaxScore
MaxScore == 1
\* the artifacts given to the codec have up to MaxInputs inputs
MaxInputs == 2
\* with timestamps 0..MaxTimestamp
MaxTimestamp == 2
\* Math.random() returns one of 0/RandSteps .. (RandSteps-1)/RandSteps
RandSteps == 4
\* animation frames arrive up to MaxFrames * 250 ms after page load
MaxFrames == 9
\* key presses are held back while MaxQueue moves are pending
MaxQueue == 2
\* and forward is no longer pressed once MaxLanes lanes exist
MaxLanes == 11
\* two sessions are compared on input sequences of up to ScriptLen steps
ScriptLen == 3
\* a replay is watched for up to MaxWatch * 250 ms and played MaxPlays times
MaxWatch == 4
MaxPlays == 2
\* a generator is drawn from up to MaxDraws times after it was (re)seeded
MaxDraws == 3
\* up to MaxWallets wallets are connected, and up to MaxSaves submissions
\* succeed, with scores 0, 1 and MaxSubmitted
MaxWallets == 1
MaxSaves == 2
MaxSubmitted == 2
\* the App mounts up to MaxGames games
MaxGames == 2
\* key presses of a timed session
MaxKeys == 1

(***************************************************************************)
(* Program constants.                                                      *)
(***************************************************************************)
\* GameInputRecorder.ts:13, the InputEvent action type
Actions == {"forward", "backward", "left", "right"}
\* GameInputRecorder.ts:37
version == "1.0.0"
\* GameInputRecorder.ts:76
NotActiveError == "Recorder is not active"
\* GameInputRecorder.ts:125
InvalidFormatError == "Invalid recording format"
NoError == "none"

VARIABLES
  \* ---- GameInputRecorder instance fields (GameInputRecorder.ts:32-36)
  recording,            \* boolean
  seed,                 \* number
  startTime,            \* Date.now() at start
  gameStartTimestamp,   \* performance.now() at start, in ticks
  inputs,               \* reference (index into arrays) of the event buffer
  \* ---- the JavaScript heap the recorder allocates in
  arrays,               \* arrays[r]: the InputEvent[] with reference r
  recordings,           \* recordings[o]: the GameRecording object stop returned o-th
  \* ---- the environment
  perfNow,              \* the last reading of performance.now(), in ticks
  calls,                \* the calls made so far and what each returned
  thrown,               \* the error the last call raised, or NoError
  \* ---- the static codec functions applied to one artifact
  art,                  \* the GameRecording given to validate and serialize
  validated,            \* what validate(art) returned or raised, "unset" before
  wire,                 \* serialize(art), <<>> before
  decoded,              \* [thrown, value] of deserialize(wire)
  \* ---- the game state of a mounted CrossyGame (CrossyGame.tsx:380-387)
  lanes,                \* lanes[i + 1] is the lane with index i
  currentLane,
  currentColumn,
  previousTimestamp,    \* 0 for null
  startMoving,
  moves,
  stepStartTimestamp,   \* 0 for null
  gameOver,
  chickenX,             \* chicken.position.x, in 1/XScale units
  frameRequested,       \* a requestAnimationFrame(animate) callback is pending
  rng,                  \* where the stream of Math.random() stands
  reportedScore,        \* the last argument of onScoreChange
  gameOverCalls,        \* the arguments of the onGameOver calls, in order
  \* ---- two sessions on the same seed and inputs
  script,               \* [seed, steps]: what both sessions are given
  pc,                   \* the next step of the script
  firstRun,             \* what the first session ended with
  \* ---- the ReplayViewer component (ReplayViewer.tsx:16-19) and the store
  stored,               \* replay_data of the player, as getPlayer returns it
  viewerRecording,      \* the state "recording"
  replayState,
  viewerError,          \* the state "error"
  gameKey,
  \* ---- two SeededRandom instances (SeededRandom.ts:12)
  gens,                 \* gens[g]: the field seed of instance g
  keys,                 \* keys[g]: the seed g was last given, and by what
  draws,                \* draws[g]: what random() returned since then
  \* ---- the lineraClient singleton (lineraClient.ts:20-27) and its stores
  walletAddress,        \* 0 for null
  backend,              \* whether the field backend holds an application
  addresses,            \* how many addresses the faucet and Math.random have handed out
  localStorage,         \* localStorage[a]: the text under linera_player_<a>, <<>> for none
  chain,                \* chain[a]: what the contract stores for a, NoPlayer for none
  saved,                \* saved[a]: the saveScore calls of wallet a that returned true
  returned,             \* what the last call on the client returned or raised
  \* ---- the App component (App.tsx:15-19) and WalletConnect (WalletConnect.tsx:11-12)
  gameState,
  score,
  appWalletAddress,     \* the state walletAddress of App, 0 for null
  submittingScore,
  appGameKey,
  wcWalletAddress,      \* the state walletAddress of WalletConnect, 0 for null
  connecting,
  timers,               \* the pending setTimeout callbacks of handleSubmitScore
  submission,           \* how the saveScore that handleSubmitScore awaits came out
  \* ---- two sessions on one board with the same timed key presses
  session,              \* 0: none, 1: the first session, 2: the second
  board,                \* where the stream of Math.random() stood at mount
  keyLog,               \* the key presses of the first session: [at, direction]
  fed,                  \* how many of them the second session has been given
  completions,          \* the moves done in this session: [at, lane, column]
  firstOutcome          \* what the first session came to

recVars == <<recording, seed, startTime, gameStartTimestamp, inputs, arrays,
             recordings, perfNow, calls, thrown>>

codecVars == <<art, validated, wire, decoded>>

gameVars == <<lanes, currentLane, currentColumn, previousTimestamp, startMoving,
              moves, stepStartTimestamp, gameOver, chickenX, frameRequested, rng,
              reportedScore, gameOverCalls>>

detVars == <<script, pc, firstRun>>

viewVars == <<stored, viewerRecording, replayState, viewerError, gameKey>>

genVars == <<gens, keys, draws>>

clientVars == <<walletAddress, backend, addresses, localStorage, chain, saved,
                returned>>

appVars == <<gameState, score, appWalletAddress, submittingScore, appGameKey,
             wcWalletAddress, connecting, timers, submission>>

timingVars == <<session, board, keyLog, fed, completions, firstOutcome>>

vars == <<recVars, codecVars, gameVars, detVars, viewVars, genVars, clientVars,
          appVars, timingVars>>

(***************************************************************************)
(* Recorder: GameInputRecorder.ts:31-108                                   *)
(***************************************************************************)
\* start(seed?: number): the argument is absent (undefined) or a number
SeedArgs == {[given |-> FALSE, value |-> 0]}
              \cup {[given |-> TRUE, value |-> v] : v \in {0, MaxSeed}}

\* JavaScript truthiness of a number (NaN does not occur in the model)
Truthy(n) == n # 0

\* `seed ?? Date.now()`: only an absent seed yields the wall clock
SeedOrNowNullish(arg, now) == IF arg.given THEN arg.value ELSE now

\* `seed || Date.now()`: an absent or falsy seed yields the wall clock
SeedOrNow(arg, now) == IF arg.given /\ Truthy(arg.value) THEN arg.value ELSE now

\* Math.round of a tick count taken as milliseconds: floor(t/TicksPerMs + 1/2)
MathRound(t) == (2 * t + TicksPerMs) \div (2 * TicksPerMs)

\* the recorder as constructed (GameInputRecorder.ts:32-36, 219)
RecInit ==
  /\ recording = FALSE
  /\ seed = 0
  /\ startTime = 0
  /\ gameStartTimestamp = 0
  /\ arrays = << <<>> >>
  /\ inputs = 1
  /\ recordings = <<>>
  /\ perfNow = 0
  /\ calls = <<>>
  /\ thrown = NoError

\* the entry of the call log for a call and what it returned
Call(op, arg, ret, logged, at) ==
  [op |-> op, arg |-> arg, ret |-> ret, logged |-> logged, at |-> at]

\* Start with the line `this.inputs = []` left out
StartKeepBuffer(arg, now, perf) ==
  /\ recording' = TRUE
  /\ seed' = SeedOrNow(arg, now)
  /\ startTime' = now
  /\ gameStartTimestamp' = perf
  /\ perfNow' = perf
  /\ thrown' = NoError
  /\ calls' = Append(calls, Call("start", arg, 0, SeedOrNow(arg, now), now))
  /\ UNCHANGED <<arrays, inputs, recordings>>

\* start(seed): GameInputRecorder.ts:43-51; now and perf are the readings of
\* Date.now() and performance.now()
Start(arg, now, perf) ==
  /\ recording' = TRUE
  /\ seed' = SeedOrNow(arg, now)
  /\ startTime' = now
  /\ gameStartTimestamp' = perf
  /\ perfNow' = perf
  /\ arrays' = Append(arrays, <<>>)
  /\ inputs' = Len(arrays) + 1
  /\ thrown' = NoError
  /\ calls' = Append(calls, Call("start", arg, 0, SeedOrNow(arg, now), now))
  /\ UNCHANGED recordings

\* RecordInput taking its offsets from Date.now() instead of performance.now()
RecordInputWallClock(action, now, perf) ==
  /\ IF ~recording
       THEN UNCHANGED <<arrays, perfNow>>
       ELSE /\ arrays' = [arrays EXCEPT ![inputs] =
                            Append(@, [timestamp |-> now - startTime,
                                       action |-> action])]
            /\ perfNow' = perf
  /\ thrown' = NoError
  /\ calls' = Append(calls, Call("recordInput", action, 0, 0, 0))
  /\ UNCHANGED <<recording, seed, startTime, gameStartTimestamp, inputs, recordings>>

\* RecordInput without its first line `if (!this.recording) return`
RecordInputNoGuard(action, now, perf) ==
  /\ arrays' = [arrays EXCEPT ![inputs] =
                  Append(@, [timestamp |-> MathRound(perf - gameStartTimestamp),
                             action |-> action])]
  /\ perfNow' = perf
  /\ thrown' = NoError
  /\ calls' = Append(calls, Call("recordInput", action, 0, 0, 0))
  /\ UNCHANGED <<recording, seed, startTime, gameStartTimestamp, inputs, recordings>>

\* recordInput(action): GameInputRecorder.ts:57-68; perf is the reading of
\* performance.now() (now, the wall clock, is not read)
RecordInput(action, now, perf) ==
  /\ IF ~recording
       THEN UNCHANGED <<arrays, perfNow>>
       ELSE /\ arrays' = [arrays EXCEPT ![inputs] =
                            Append(@, [timestamp |-> MathRound(perf - gameStartTimestamp),
                                       action |-> action])]
            /\ perfNow' = perf
  /\ thrown' = NoError
  /\ calls' = Append(calls, Call("recordInput", action, 0, 0, 0))
  /\ UNCHANGED <<recording, seed, startTime, gameStartTimestamp, inputs, recordings>>

\* the GameRecording object stop builds (GameInputRecorder.ts:80-89), its
\* inputs a fresh copy of the buffer stored at reference r
NewRecording(finalScore, now, r) ==
  [seed |-> seed, startTime |-> startTime, inputs |-> r,
   finalScore |-> finalScore, duration |-> now - startTime,
   version |-> version]

\* Stop without its guard `if (!this.recording) throw`
StopNoGuard(finalScore, now) ==
  /\ recording' = FALSE
  /\ arrays' = Append(arrays, arrays[inputs])
  /\ recordings' = Append(recordings, NewRecording(finalScore, now, Len(arrays) + 1))
  /\ thrown' = NoError
  /\ calls' = Append(calls, Call("stop", finalScore, Len(recordings) + 1, 0, 0))
  /\ UNCHANGED <<seed, startTime, gameStartTimestamp, inputs, perfNow>>

\* Stop filling and returning one GameRecording object kept by the recorder,
\* so that every reference handed out earlier designates the same object
StopReuse(finalScore, now) ==
  /\ IF ~recording
       THEN /\ thrown' = NotActiveError
            /\ calls' = Append(calls, Call("stop", finalScore, 0, 0, 0))
            /\ UNCHANGED <<recording, arrays, recordings>>
       ELSE /\ recording' = FALSE
            /\ arrays' = Append(arrays, arrays[inputs])
            /\ recordings' = [o \in 1..(Len(recordings) + 1) |->
                                NewRecording(finalScore, now, Len(arrays) + 1)]
            /\ thrown' = NoError
            /\ calls' = Append(calls, Call("stop", finalScore, Len(recordings) + 1, 0, 0))
  /\ UNCHANGED <<seed, startTime, gameStartTimestamp, inputs, perfNow>>

\* stop(finalScore): GameInputRecorder.ts:74-94; now is the reading of Date.now()
Stop(finalScore, now) ==
  /\ IF ~recording
       THEN /\ thrown' = NotActiveError
            /\ calls' = Append(calls, Call("stop", finalScore, 0, 0, 0))
            /\ UNCHANGED <<recording, arrays, recordings>>
       ELSE /\ recording' = FALSE
            /\ arrays' = Append(arrays, arrays[inputs])
            /\ recordings' = Append(recordings,
                                    NewRecording(finalScore, now, Len(arrays) + 1))
            /\ thrown' = NoError
            /\ calls' = Append(calls, Call("stop", finalScore, Len(recordings) + 1, 0, 0))
  /\ UNCHANGED <<seed, startTime, gameStartTimestamp, inputs, perfNow>>

\* isRecording(): GameInputRecorder.ts:99-101
isRecording == recording

\* getInputCount(): GameInputRecorder.ts:106-108
getInputCount == Len(arrays[inputs])

\* the clock readings a call can see: performance.now() never goes back,
\* Date.now() may (the wall clock can be set)
WallReadings == {1, MaxWall}
FinalScores == {0, MaxScore}
PerfReadings == perfNow..MaxPerf

CallStart ==
  /\ Len(calls) < MaxCalls
  /\ \E arg \in SeedArgs, now \in WallReadings, perf \in PerfReadings :
       Start(arg, now, perf)

CallRecordInput ==
  /\ Len(calls) < MaxCalls
  /\ \E action \in Actions, now \in WallReadings, perf \in PerfReadings :
       RecordInput(action, now, perf)

CallStop ==
  /\ Len(calls) < MaxCalls
  /\ \E finalScore \in FinalScores, now \in WallReadings :
       Stop(finalScore, now)

(***************************************************************************)
(* JavaScript values, as far as recordings use them.  A value is a record  *)
(* [t, v]: t is its type tag, v its payload.                               *)
(***************************************************************************)
Num(n) == [t |-> "number", v |-> n]
Str(s) == [t |-> "string", v |-> s]
Arr(items) == [t |-> "array", v |-> items]
Obj(fields) == [t |-> "object", v |-> fields]
Undefined == [t |-> "undefined", v |-> 0]
Null == [t |-> "null", v |-> 0]

\* !x : the values JavaScript takes as false (NaN does not occur in the model)
Falsy(x) ==
  \/ x.t \in {"undefined", "null"}
  \/ x.t = "number" /\ x.v = 0
  \/ x.t = "string" /\ x.v = ""

\* Array.isArray(x)
IsArray(x) == x.t = "array"

\* a < b on two property values: a comparison with undefined is false
JsLess(a, b) == a.t = "number" /\ b.t = "number" /\ a.v < b.v

\* x.timestamp and x.action of an array element
IsObject(x) == x.t = "object"

\* the GameRecording object (GameInputRecorder.ts:16-29) as a JavaScript
\* value: a property that is absent reads as Undefined
RecordingObject(sd, st, ins, fs, du, ve) ==
  [seed |-> sd, startTime |-> st, inputs |-> ins, finalScore |-> fs,
   duration |-> du, version |-> ve]

\* the InputEvent object (GameInputRecorder.ts:9-14)
EventObject(ts, ac) == Obj([timestamp |-> ts, action |-> ac])

\* the object stop returned with reference o, as a JavaScript value
JsRecording(o) ==
  LET a == recordings[o]
      evs == arrays[a.inputs]
  IN  RecordingObject(Num(a.seed), Num(a.startTime),
        Arr([k \in 1..Len(evs) |-> EventObject(Num(evs[k].timestamp), Str(evs[k].action))]),
        Num(a.finalScore), Num(a.duration), Str(a.version))

(***************************************************************************)
(* JSON text, as a sequence of tokens [k, s]: punctuation, string          *)
(* literals, the literal null, and the characters of a number.             *)
(***************************************************************************)
Punct(c) == [k |-> "punct", s |-> c]
StrTok(c) == [k |-> "string", s |-> c]
Ch(c) == [k |-> "char", s |-> c]
NullTok == [k |-> "literal", s |-> "null"]

DigitChars == <<"0", "1", "2", "3", "4", "5", "6", "7", "8", "9">>

\* the decimal digits of a natural number, most significant first
RECURSIVE NatText(_)
NatText(n) ==
  IF n < 10 THEN <<Ch(DigitChars[n + 1])>>
            ELSE Append(NatText(n \div 10), Ch(DigitChars[(n % 10) + 1]))

\* NumText that loses the sign of a negative number
NumTextNoSign(n) == IF n < 0 THEN NatText(-n) ELSE NatText(n)

\* JSON.stringify of an integer
NumText(n) == IF n < 0 THEN <<Ch("-")>> \o NatText(-n) ELSE NatText(n)

\* the property names in the order stop creates them (GameInputRecorder.ts:82-89)
RecordingProps == <<"seed", "startTime", "inputs", "finalScore", "duration", "version">>
EventProps == <<"timestamp", "action">>

RECURSIVE StringifyValue(_), StringifyItems(_, _), StringifyProps(_, _, _, _)

\* JSON.stringify of a value
StringifyValue(x) ==
  CASE x.t = "number" -> NumText(x.v)
    [] x.t = "string" -> <<StrTok(x.v)>>
    [] x.t = "array"  -> <<Punct("[")>> \o StringifyItems(x.v, 1) \o <<Punct("]")>>
    [] x.t = "object" -> <<Punct("{")>> \o StringifyProps(x.v, EventProps, 1, TRUE)
                           \o <<Punct("}")>>
    [] OTHER          -> <<NullTok>>

\* the elements of an array from the i-th on: undefined is written null
StringifyItems(items, i) ==
  IF i > Len(items) THEN <<>>
  ELSE (IF i > 1 THEN <<Punct(",")>> ELSE <<>>)
         \o StringifyValue(items[i]) \o StringifyItems(items, i + 1)

\* the properties of an object from the i-th on: a property whose value is
\* undefined is left out
StringifyProps(fields, props, i, first) ==
  IF i > Len(props) THEN <<>>
  ELSE LET x == fields[props[i]] IN
    IF x.t = "undefined" THEN StringifyProps(fields, props, i + 1, first)
    ELSE (IF first THEN <<>> ELSE <<Punct(",")>>)
           \o <<StrTok(props[i]), Punct(":")>> \o StringifyValue(x)
           \o StringifyProps(fields, props, i + 1, FALSE)

\* JSON.stringify(recording)
JSONstringify(rec) ==
  <<Punct("{")>> \o StringifyProps(rec, RecordingProps, 1, TRUE) \o <<Punct("}")>>

\* serialize(recording): GameInputRecorder.ts:113-115
serialize(rec) == JSONstringify(rec)

\* ---- JSON.parse: a recursive-descent parser over the tokens.  Each
\* operator returns [ok, v, i]: whether it parsed, the value, the next index.
Parsed(x, i) == [ok |-> TRUE, v |-> x, i |-> i]
SyntaxErr == [ok |-> FALSE, v |-> Undefined, i |-> 0]

DigitValue(c) == CHOOSE d \in 0..9 : DigitChars[d + 1] = c
IsDigit(tok) == tok.k = "char" /\ \E d \in 0..9 : DigitChars[d + 1] = tok.s
IsTok(toks, i, tok) == i <= Len(toks) /\ toks[i] = tok

\* the digits from index i on, read onto the value acc
RECURSIVE ParseDigits(_, _, _)
ParseDigits(toks, i, acc) ==
  IF i <= Len(toks) /\ IsDigit(toks[i])
    THEN ParseDigits(toks, i + 1, 10 * acc + DigitValue(toks[i].s))
    ELSE Parsed(Num(acc), i)

ParseNumber(toks, i) ==
  IF IsTok(toks, i, Ch("-"))
    THEN IF i + 1 <= Len(toks) /\ IsDigit(toks[i + 1])
           THEN LET p == ParseDigits(toks, i + 1, 0) IN Parsed(Num(-p.v.v), p.i)
           ELSE SyntaxErr
    ELSE ParseDigits(toks, i, 0)

\* the value of property name among the parsed members (the last one wins),
\* Undefined when there is none
RECURSIVE Member(_, _, _)
Member(members, name, i) ==
  IF i = 0 THEN Undefined
  ELSE IF members[i].key = name THEN members[i].val
  ELSE Member(members, name, i - 1)

RECURSIVE ParseValue(_, _, _), ParseItems(_, _, _), ParseMembers(_, _, _)

\* a value at index i; depth 0 is the recording, depth 1 an element of inputs
ParseValue(toks, i, depth) ==
  IF i > Len(toks) THEN SyntaxErr
  ELSE LET tok == toks[i] IN
    CASE tok.k = "string" -> Parsed(Str(tok.s), i + 1)
      [] tok.k = "literal" -> Parsed(Null, i + 1)
      [] tok.k = "char" -> ParseNumber(toks, i)
      [] tok = Punct("[") ->
           IF IsTok(toks, i + 1, Punct("]")) THEN Parsed(Arr(<<>>), i + 2)
           ELSE ParseItems(toks, i + 1, <<>>)
      [] tok = Punct("{") ->
           IF IsTok(toks, i + 1, Punct("}")) THEN Parsed([t |-> "members", v |-> <<>>], i + 2)
           ELSE ParseMembers(toks, i + 1, <<>>)
      [] OTHER -> SyntaxErr

\* the elements of an array, the first at index i
ParseItems(toks, i, acc) ==
  LET p == ParseValue(toks, i, 1) IN
    IF ~p.ok THEN SyntaxErr
    ELSE LET x == IF p.v.t = "members"
                    THEN EventObject(Member(p.v.v, "timestamp", Len(p.v.v)),
                                     Member(p.v.v, "action", Len(p.v.v)))
                    ELSE p.v
         IN  IF IsTok(toks, p.i, Punct(",")) THEN ParseItems(toks, p.i + 1, Append(acc, x))
             ELSE IF IsTok(toks, p.i, Punct("]")) THEN Parsed(Arr(Append(acc, x)), p.i + 1)
             ELSE SyntaxErr

\* the members "name": value of an object, the first at index i
ParseMembers(toks, i, acc) ==
  IF ~(i + 1 <= Len(toks) /\ toks[i].k = "string" /\ toks[i + 1] = Punct(":"))
    THEN SyntaxErr
  ELSE LET p == ParseValue(toks, i + 2, 1) IN
    IF ~p.ok THEN SyntaxErr
    ELSE LET m == Append(acc, [key |-> toks[i].s, val |-> p.v]) IN
      IF IsTok(toks, p.i, Punct(",")) THEN ParseMembers(toks, p.i + 1, m)
      ELSE IF IsTok(toks, p.i, Punct("}")) THEN Parsed([t |-> "members", v |-> m], p.i + 1)
      ELSE SyntaxErr

\* JSON.parse(data) as GameRecording: the parsed object read through the
\* property names of GameRecording
JSONparse(data) ==
  LET p == ParseValue(data, 1, 0) IN
    IF ~p.ok \/ p.i # Len(data) + 1 THEN SyntaxErr
    ELSE IF p.v.t = "members"
      THEN Parsed(RecordingObject(Member(p.v.v, "seed", Len(p.v.v)),
                                  Member(p.v.v, "startTime", Len(p.v.v)),
                                  Member(p.v.v, "inputs", Len(p.v.v)),
                                  Member(p.v.v, "finalScore", Len(p.v.v)),
                                  Member(p.v.v, "duration", Len(p.v.v)),
                                  Member(p.v.v, "version", Len(p.v.v))), p.i)
      ELSE Parsed(RecordingObject(Undefined, Undefined, Undefined, Undefined,
                                  Undefined, Undefined), p.i)

SyntaxError == "SyntaxError"
TypeError == "TypeError"

\* reading a property of undefined or null raises a TypeError
NoProps(x) == x.t \in {"undefined", "null"}

\* deserialize(data): GameInputRecorder.ts:120-134 (the version warning is
\* only logged); the text null parses to null, whose seed cannot be read
deserialize(data) ==
  LET p == JSONparse(data) IN
    IF ~p.ok THEN [thrown |-> SyntaxError, value |-> p.v]
    ELSE IF NoProps(ParseValue(data, 1, 0).v) THEN [thrown |-> TypeError, value |-> p.v]
    ELSE IF Falsy(p.v.seed) \/ Falsy(p.v.inputs) \/ ~IsArray(p.v.inputs)
      THEN [thrown |-> InvalidFormatError, value |-> p.v]
      ELSE [thrown |-> NoError, value |-> p.v]

\* the valid actions (GameInputRecorder.ts:170)
validActions == <<"forward", "backward", "left", "right">>

\* validActions.includes(x)
Includes(list, x) == x.t = "string" /\ \E k \in 1..Len(list) : list[k] = x.v

\* x.p for an array element x: a property of a non-object reads undefined
EventProp(x, p) == IF IsObject(x) THEN x.v[p] ELSE Undefined

\* the loop of GameInputRecorder.ts:163-167 from index i (1-based here) on:
\* "false" at the first decreasing pair, "ok" when it runs to the end
RECURSIVE OrderLoop(_, _)
OrderLoop(items, i) ==
  IF i > Len(items) THEN "ok"
  ELSE IF NoProps(items[i]) \/ NoProps(items[i - 1]) THEN TypeError
  ELSE IF JsLess(EventProp(items[i], "timestamp"), EventProp(items[i - 1], "timestamp"))
    THEN "false"
  ELSE OrderLoop(items, i + 1)

\* the loop of GameInputRecorder.ts:171-175 from index i on
RECURSIVE ActionLoop(_, _)
ActionLoop(items, i) ==
  IF i > Len(items) THEN "ok"
  ELSE IF NoProps(items[i]) THEN TypeError
  ELSE IF ~Includes(validActions, EventProp(items[i], "action")) THEN "false"
  ELSE ActionLoop(items, i + 1)

\* validate with the ordering loop left out
validateNoOrder(rec) ==
  IF Falsy(rec.seed) \/ Falsy(rec.inputs) \/ Falsy(rec.startTime) THEN "false"
  ELSE IF ~IsArray(rec.inputs)
    THEN IF rec.inputs.t = "string" THEN "false" ELSE TypeError
  ELSE LET c == ActionLoop(rec.inputs.v, 1) IN
    IF c # "ok" THEN c ELSE "true"

\* validate(recording): GameInputRecorder.ts:156-178; "true", "false", or
\* TypeError when it raises.  An inputs value that is no array has no
\* numeric length (the first loop does not run): a non-empty string is
\* iterated by characters, which have no action; a number or a plain object
\* is not iterable
validate(rec) ==
  IF Falsy(rec.seed) \/ Falsy(rec.inputs) \/ Falsy(rec.startTime) THEN "false"
  ELSE IF ~IsArray(rec.inputs)
    THEN IF rec.inputs.t = "string" THEN "false" ELSE TypeError
  ELSE LET o == OrderLoop(rec.inputs.v, 2) IN
    IF o # "ok" THEN o
    ELSE LET c == ActionLoop(rec.inputs.v, 1) IN
      IF c # "ok" THEN c ELSE "true"

(***************************************************************************)
(* The codec applied to one artifact                                       *)
(***************************************************************************)
\* the artifacts given to the codec: inputs of up to MaxInputs events with
\* timestamps 0..MaxTimestamp
EventInputs ==
  {EventObject(Num(ts), Str(ac)) :
     ts \in 0..MaxTimestamp, ac \in Actions \cup {"jump"}}

RECURSIVE SeqsUpTo(_, _)
SeqsUpTo(S, n) ==
  IF n = 0 THEN {<<>>}
  ELSE LET shorter == SeqsUpTo(S, n - 1)
       IN  shorter \cup {Append(q, x) : q \in {r \in shorter : Len(r) = n - 1}, x \in S}

SeedInputs == {Num(0), Num(42), Num(2147483647)}
StartTimeInputs == {Num(0), Num(1700000000)}
ScoreInputs == {<<Num(0), Num(-1), Str("1.0.0")>>, <<Num(12), Num(34567), Str("2.0.0")>>}

ArtifactInputs ==
  {RecordingObject(sd, st, Arr(ins), sc[1], sc[2], sc[3]) :
     sd \in SeedInputs, st \in StartTimeInputs,
     ins \in SeqsUpTo(EventInputs, MaxInputs), sc \in ScoreInputs}

Unset == "unset"
NotDecoded == [thrown |-> Unset, value |-> RecordingObject(Undefined, Undefined,
                 Undefined, Undefined, Undefined, Undefined)]

CodecOff ==
  /\ art = NotDecoded.value
  /\ validated = Unset
  /\ wire = <<>>
  /\ decoded = NotDecoded

CodecInit ==
  /\ art \in ArtifactInputs
  /\ validated = Unset
  /\ wire = <<>>
  /\ decoded = NotDecoded

CodecValidate ==
  /\ validated = Unset
  /\ validated' = validate(art)
  /\ UNCHANGED <<art, wire, decoded>>

CodecSerialize ==
  /\ wire = <<>>
  /\ wire' = serialize(art)
  /\ UNCHANGED <<art, validated, decoded>>

CodecDeserialize ==
  /\ wire # <<>>
  /\ decoded.thrown = Unset
  /\ decoded' = deserialize(wire)
  /\ UNCHANGED <<art, validated, wire>>

(***************************************************************************)
(* The game: CrossyGame.tsx                                                *)
(***************************************************************************)
\* CrossyGame.tsx:17-25
zoom == 2
chickenSize == 15
positionWidth == 42
columns == 17
boardWidth == positionWidth * columns
stepTime == 200
laneTypes == <<"car", "truck", "forest">>
\* laneSpeeds [2, 2.5, 3], doubled to stay in the integers
laneSpeeds2 == <<4, 5, 6>>
\* CrossyGame.tsx:308, the trees of a forest lane
treeCount == 4
\* CrossyGame.tsx:390, generateLanes builds the indices -9..9
firstLaneIndex == -9
lastLaneIndex == 9
\* x coordinates are kept in units of 1/XScale, which makes
\* (speed / 16) * delta and (moveDeltaTime / stepTime) * positionWidth * zoom
\* integers for whole milliseconds
XScale == 800

Directions == {"forward", "backward", "left", "right"}

Min(a, b) == IF a < b THEN a ELSE b

\* ---- Math.random(): the stream is r/RandSteps, (r+1)/RandSteps, ...
\* (cyclically), starting at a value the program does not control
NextRandom(r) == (r + 1) % RandSteps
\* Math.floor(Math.random() * n)
RandomIndex(r, n) == (r * n) \div RandSteps
\* Math.floor((Math.random() * columns) / divider)
RandomPosition(r, divider) == (r * columns) \div (RandSteps * divider)

\* do { position = ... } while (occupied.has(position)): CrossyGame.tsx:311-313, 333-335
RECURSIVE FreshPosition(_, _, _)
FreshPosition(occupied, divider, r) ==
  LET position == RandomPosition(r, divider) IN
    IF position \in occupied THEN FreshPosition(occupied, divider, NextRandom(r))
    ELSE [position |-> position, rng |-> NextRandom(r)]

\* n objects placed one after the other (CrossyGame.tsx:308-319, 328-343):
\* Tree(), Car() and Truck() each draw once (height, colour), then the
\* position is drawn
RECURSIVE Place(_, _, _, _)
Place(n, divider, placed, r) ==
  IF n = 0 THEN [positions |-> placed, rng |-> r]
  ELSE LET p == FreshPosition({placed[k] : k \in 1..Len(placed)}, divider, NextRandom(r))
       IN  Place(n - 1, divider, Append(placed, p.position), p.rng)

\* vehicle.position.x for a slot (CrossyGame.tsx:337-339), tree x likewise
SlotX(position, divider) ==
  ((position * positionWidth * divider + positionWidth \div 2) * zoom
     - (boardWidth * zoom) \div 2) * XScale

\* Lane(index): CrossyGame.tsx:297-349; returns the lane and the stream
Lane(index, r) ==
  LET type == IF index <= 0 THEN "field" ELSE laneTypes[RandomIndex(r, Len(laneTypes)) + 1]
      r1 == IF index <= 0 THEN r ELSE NextRandom(r)
  IN CASE type = "field" ->
            [lane |-> [index |-> index, type |-> type, occupiedPositions |-> {},
                       direction |-> FALSE, speed2 |-> 0, slots |-> <<>>, vehicles |-> <<>>],
             rng |-> r1]
       [] type = "forest" ->
            LET t == Place(treeCount, 1, <<>>, r1) IN
            [lane |-> [index |-> index, type |-> type,
                       occupiedPositions |-> {t.positions[k] : k \in 1..treeCount},
                       direction |-> FALSE, speed2 |-> 0, slots |-> <<>>, vehicles |-> <<>>],
             rng |-> t.rng]
       [] OTHER ->
            LET direction == 2 * r1 >= RandSteps
                vehicleCount == IF type = "car" THEN 3 ELSE 2
                divider == IF type = "car" THEN 2 ELSE 3
                v == Place(vehicleCount, divider, <<>>, NextRandom(r1))
                speed2 == laneSpeeds2[RandomIndex(v.rng, Len(laneSpeeds2)) + 1]
            IN
            [lane |-> [index |-> index, type |-> type, occupiedPositions |-> {},
                       direction |-> direction, speed2 |-> speed2,
                       slots |-> v.positions,
                       vehicles |-> [k \in 1..vehicleCount |-> SlotX(v.positions[k], divider)]],
             rng |-> NextRandom(v.rng)]

\* generateLanes(): CrossyGame.tsx:389-397; the lanes of index < 0 are
\* fields, drawn without Math.random, and filtered out
RECURSIVE GenerateFrom(_, _, _)
GenerateFrom(index, acc, r) ==
  IF index > lastLaneIndex THEN [lanes |-> acc, rng |-> r]
  ELSE LET l == Lane(index, r)
       IN  GenerateFrom(index + 1, IF index >= 0 THEN Append(acc, l.lane) ELSE acc, l.rng)

generateLanes(r) == GenerateFrom(firstLaneIndex, <<>>, r)

\* lanes[index] of the program
LaneAt(ls, index) == ls[index + 1]

\* initializeValues() and the first requestAnimationFrame:
\* CrossyGame.tsx:407-426, 609, with the stream of Math.random() at r
initializeValues(r) ==
  LET g == generateLanes(r) IN
    [lanes |-> g.lanes, rng |-> g.rng, currentLane |-> 0,
     currentColumn |-> columns \div 2, previousTimestamp |-> 0,
     startMoving |-> FALSE, moves |-> <<>>, stepStartTimestamp |-> 0,
     gameOver |-> FALSE, chickenX |-> 0, frameRequested |-> TRUE,
     reportedScore |-> 0, gameOverCalls |-> <<>>]

\* a CrossyGame is mounted: the stream of Math.random() stands anywhere,
\* whatever the props are (CrossyGame.tsx:378 takes no seed)
Mount ==
  \E r \in 0..(RandSteps - 1) :
    LET g == initializeValues(r) IN
      /\ lanes = g.lanes
      /\ rng = g.rng
      /\ currentLane = g.currentLane
      /\ currentColumn = g.currentColumn
      /\ previousTimestamp = g.previousTimestamp
      /\ startMoving = g.startMoving
      /\ moves = g.moves
      /\ stepStartTimestamp = g.stepStartTimestamp
      /\ gameOver = g.gameOver
      /\ chickenX = g.chickenX
      /\ frameRequested = g.frameRequested
      /\ reportedScore = g.reportedScore
      /\ gameOverCalls = g.gameOverCalls

\* a game is mounted with the stream of Math.random() at r
RemountOn(r) ==
    LET g == initializeValues(r) IN
      /\ lanes' = g.lanes
      /\ rng' = g.rng
      /\ currentLane' = g.currentLane
      /\ currentColumn' = g.currentColumn
      /\ previousTimestamp' = g.previousTimestamp
      /\ startMoving' = g.startMoving
      /\ moves' = g.moves
      /\ stepStartTimestamp' = g.stepStartTimestamp
      /\ gameOver' = g.gameOver
      /\ chickenX' = g.chickenX
      /\ frameRequested' = g.frameRequested
      /\ reportedScore' = g.reportedScore
      /\ gameOverCalls' = g.gameOverCalls

\* the mounted game is replaced by a new one (a new key, a new page load)
Remount == \E r \in 0..(RandSteps - 1) : RemountOn(r)

\* no game is mounted
GameOff ==
  /\ lanes = <<>>
  /\ rng = 0
  /\ currentLane = 0
  /\ currentColumn = columns \div 2
  /\ previousTimestamp = 0
  /\ startMoving = FALSE
  /\ moves = <<>>
  /\ stepStartTimestamp = 0
  /\ gameOver = FALSE
  /\ chickenX = 0
  /\ frameRequested = FALSE
  /\ reportedScore = 0
  /\ gameOverCalls = <<>>

\* the reduce of CrossyGame.tsx:431-440: the position after the queued moves
RECURSIVE FinalPositions(_, _)
FinalPositions(mvs, position) ==
  IF mvs = <<>> THEN position
  ELSE LET mv == Head(mvs) IN
    FinalPositions(Tail(mvs),
      CASE mv = "forward"  -> [lane |-> position.lane + 1, column |-> position.column]
        [] mv = "backward" -> [lane |-> position.lane - 1, column |-> position.column]
        [] mv = "left"     -> [lane |-> position.lane, column |-> position.column - 1]
        [] mv = "right"    -> [lane |-> position.lane, column |-> position.column + 1]
        [] OTHER           -> position)

finalPositions == FinalPositions(moves, [lane |-> currentLane, column |-> currentColumn])

\* lanes[l].type === "forest" && lanes[l].occupiedPositions.has(c)
TreeAt(l, c) ==
  LaneAt(lanes, l).type = "forest" /\ c \in LaneAt(lanes, l).occupiedPositions

\* the early returns of move without the two bounds checks on the column
RejectedNoBounds(direction) ==
  CASE direction = "forward" ->
         TreeAt(finalPositions.lane + 1, finalPositions.column)
    [] direction = "backward" ->
         \/ finalPositions.lane = 0
         \/ TreeAt(finalPositions.lane - 1, finalPositions.column)
    [] direction = "left" ->
         finalPositions.column > 0 /\ TreeAt(finalPositions.lane, finalPositions.column - 1)
    [] direction = "right" ->
         /\ finalPositions.column < columns - 1
         /\ TreeAt(finalPositions.lane, finalPositions.column + 1)
    [] OTHER -> FALSE

\* the early returns of move with the right edge one column too far
RejectedWideBoard(direction) ==
  CASE direction = "forward" ->
         TreeAt(finalPositions.lane + 1, finalPositions.column)
    [] direction = "backward" ->
         \/ finalPositions.lane = 0
         \/ TreeAt(finalPositions.lane - 1, finalPositions.column)
    [] direction = "left" ->
         \/ finalPositions.column = 0
         \/ TreeAt(finalPositions.lane, finalPositions.column - 1)
    [] direction = "right" ->
         \/ finalPositions.column = columns
         \/ TreeAt(finalPositions.lane, finalPositions.column + 1)
    [] OTHER -> FALSE

\* the early returns of move without the look at the trees of the lane ahead
RejectedForwardBlind(direction) ==
  CASE direction = "forward" -> FALSE
    [] direction = "backward" ->
         \/ finalPositions.lane = 0
         \/ TreeAt(finalPositions.lane - 1, finalPositions.column)
    [] direction = "left" ->
         \/ finalPositions.column = 0
         \/ TreeAt(finalPositions.lane, finalPositions.column - 1)
    [] direction = "right" ->
         \/ finalPositions.column = columns - 1
         \/ TreeAt(finalPositions.lane, finalPositions.column + 1)
    [] OTHER -> FALSE

\* whether move(direction) returns before queueing (CrossyGame.tsx:442-474)
Rejected(direction) ==
  CASE direction = "forward" ->
         TreeAt(finalPositions.lane + 1, finalPositions.column)
    [] direction = "backward" ->
         \/ finalPositions.lane = 0
         \/ TreeAt(finalPositions.lane - 1, finalPositions.column)
    [] direction = "left" ->
         \/ finalPositions.column = 0
         \/ TreeAt(finalPositions.lane, finalPositions.column - 1)
    [] direction = "right" ->
         \/ finalPositions.column = columns - 1
         \/ TreeAt(finalPositions.lane, finalPositions.column + 1)
    [] OTHER -> FALSE

\* move(direction) generating a new row at every accepted move
moveRowOnAny(direction) ==
  IF gameOver \/ Rejected(direction)
    THEN UNCHANGED gameVars
    ELSE /\ startMoving' = (IF stepStartTimestamp = 0 THEN TRUE ELSE startMoving)
         /\ LET l == Lane(Len(lanes), rng) IN
              /\ lanes' = Append(lanes, l.lane)
              /\ rng' = l.rng
         /\ moves' = Append(moves, direction)
         /\ UNCHANGED <<currentLane, currentColumn, previousTimestamp,
                        stepStartTimestamp, gameOver, chickenX, frameRequested,
                        reportedScore, gameOverCalls>>

\* move that puts the accepted move at the front of the queue
moveUnshift(direction) ==
  IF gameOver \/ Rejected(direction)
    THEN UNCHANGED gameVars
    ELSE /\ startMoving' = (IF stepStartTimestamp = 0 THEN TRUE ELSE startMoving)
         /\ IF direction = "forward"
              THEN LET l == Lane(Len(lanes), rng) IN
                     /\ lanes' = Append(lanes, l.lane)
                     /\ rng' = l.rng
              ELSE UNCHANGED <<lanes, rng>>
         /\ moves' = <<direction>> \o moves
         /\ UNCHANGED <<currentLane, currentColumn, previousTimestamp,
                        stepStartTimestamp, gameOver, chickenX, frameRequested,
                        reportedScore, gameOverCalls>>

\* move(direction): CrossyGame.tsx:428-476; an accepted forward adds a lane
move(direction) ==
  IF gameOver \/ Rejected(direction)
    THEN UNCHANGED gameVars
    ELSE /\ startMoving' = (IF stepStartTimestamp = 0 THEN TRUE ELSE startMoving)
         /\ IF direction = "forward"
              THEN LET l == Lane(Len(lanes), rng) IN
                     /\ lanes' = Append(lanes, l.lane)
                     /\ rng' = l.rng
              ELSE UNCHANGED <<lanes, rng>>
         /\ moves' = Append(moves, direction)
         /\ UNCHANGED <<currentLane, currentColumn, previousTimestamp,
                        stepStartTimestamp, gameOver, chickenX, frameRequested,
                        reportedScore, gameOverCalls>>

\* ---- animate(timestamp): CrossyGame.tsx:488-607
aBitBeforeTheBeginingOfLane == ((-boardWidth * zoom) \div 2 - positionWidth * 2 * zoom) * XScale
aBitAfterTheEndOFLane == ((boardWidth * zoom) \div 2 + positionWidth * 2 * zoom) * XScale

\* (lane.speed / 16) * delta, in 1/XScale units
Travel(speed2, delta) == (speed2 * delta * XScale) \div 32

\* one vehicle of a lane over a frame of delta ms (CrossyGame.tsx:501-513)
VehicleStep(l, x, delta) ==
  IF l.direction
    THEN IF x < aBitBeforeTheBeginingOfLane THEN aBitAfterTheEndOFLane
         ELSE x - Travel(l.speed2, delta)
    ELSE IF x > aBitAfterTheEndOFLane THEN aBitBeforeTheBeginingOfLane
         ELSE x + Travel(l.speed2, delta)

LaneStep(l, delta) ==
  [l EXCEPT !.vehicles = [k \in 1..Len(l.vehicles) |-> VehicleStep(l, l.vehicles[k], delta)]]

\* the x of the middle of a column (CrossyGame.tsx:546-548)
ColumnX(c) ==
  ((c * positionWidth + positionWidth \div 2) * zoom - (boardWidth * zoom) \div 2) * XScale

\* Math.min(moveDeltaTime / stepTime, 1) * positionWidth * zoom
MoveDeltaDistance(moveDeltaTime) ==
  (Min(moveDeltaTime, stepTime) * positionWidth * zoom * XScale) \div stepTime

\* the length of a vehicle of a lane (CrossyGame.tsx:595)
vehicleLength(type) == IF type = "car" THEN 60 ELSE 105

\* the vehicles of lane l whose extent holds the middle of the chicken
HitsCentre(l, x) ==
  IF l.type \notin {"car", "truck"} THEN {}
  ELSE {k \in 1..Len(l.vehicles) :
          /\ x > l.vehicles[k] - ((vehicleLength(l.type) * zoom) \div 2) * XScale
          /\ x < l.vehicles[k] + ((vehicleLength(l.type) * zoom) \div 2) * XScale}

\* the vehicles of lane l whose extent overlaps the chicken's (CrossyGame.tsx:593-603)
Hits(l, x) ==
  IF l.type \notin {"car", "truck"} THEN {}
  ELSE {k \in 1..Len(l.vehicles) :
          /\ x + ((chickenSize * zoom) \div 2) * XScale
               > l.vehicles[k] - ((vehicleLength(l.type) * zoom) \div 2) * XScale
          /\ x - ((chickenSize * zoom) \div 2) * XScale
               < l.vehicles[k] + ((vehicleLength(l.type) * zoom) \div 2) * XScale}

\* a step that is over once half the step time has passed
StepDoneEarly(moveDeltaTime) == 2 * moveDeltaTime > stepTime

\* if (moveDeltaTime > stepTime) (CrossyGame.tsx:569)
StepDone(moveDeltaTime) == moveDeltaTime > stepTime

animate(timestamp) ==
  LET delta == IF previousTimestamp = 0 THEN 0 ELSE timestamp - previousTimestamp
      moved == [i \in 1..Len(lanes) |-> LaneStep(lanes[i], delta)]
      stepStart == IF startMoving THEN timestamp ELSE stepStartTimestamp
      stepping == stepStart # 0
      moveDeltaTime == timestamp - stepStart
      head == IF moves = <<>> THEN "none" ELSE moves[1]
      x == IF stepping /\ head = "left"
             THEN ColumnX(currentColumn) - MoveDeltaDistance(moveDeltaTime)
           ELSE IF stepping /\ head = "right"
             THEN ColumnX(currentColumn) + MoveDeltaDistance(moveDeltaTime)
           ELSE chickenX
      done == stepping /\ StepDone(moveDeltaTime)
      lane == IF done /\ head = "forward" THEN currentLane + 1
              ELSE IF done /\ head = "backward" THEN currentLane - 1
              ELSE currentLane
      column == IF done /\ head = "left" THEN currentColumn - 1
                ELSE IF done /\ head = "right" THEN currentColumn + 1
                ELSE currentColumn
      rest == IF done /\ moves # <<>> THEN Tail(moves) ELSE moves
      hits == IF lane + 1 \in 1..Len(moved) THEN Hits(LaneAt(moved, lane), x) ELSE {}
  IN  /\ frameRequested
      /\ frameRequested' = ~gameOver
      /\ previousTimestamp' = timestamp
      /\ lanes' = moved
      /\ startMoving' = FALSE
      /\ chickenX' = x
      /\ currentLane' = lane
      /\ currentColumn' = column
      /\ reportedScore' = (IF done /\ head \in {"forward", "backward"} THEN lane
                           ELSE reportedScore)
      /\ moves' = rest
      /\ stepStartTimestamp' = (IF done THEN (IF rest = <<>> THEN 0 ELSE timestamp)
                                ELSE stepStart)
      /\ gameOver' = (gameOver \/ hits # {})
      /\ gameOverCalls' = gameOverCalls \o [k \in 1..Cardinality(hits) |-> lane]
      /\ UNCHANGED rng

\* ---- the environment of a mounted game
\* the frame deltas the browser delivers, in ms, and the first timestamp
FrameDeltas == {125, 250}
FirstFrames == {125, 250}
TimeLimit == MaxFrames * 250

\* a key press: handleKeyDown, CrossyGame.tsx:478-483
KeyDown ==
  /\ Len(moves) < MaxQueue
  /\ \E direction \in Directions :
       /\ direction = "forward" => Len(lanes) < MaxLanes
       /\ move(direction)

\* the browser runs the pending animation frame callback, up to limit ms
\* after page load
FrameBefore(limit) ==
  \E timestamp \in (IF previousTimestamp = 0 THEN FirstFrames
                    ELSE {previousTimestamp + d : d \in FrameDeltas}) :
    /\ timestamp <= limit
    /\ animate(timestamp)

Frame == FrameBefore(TimeLimit)

(***************************************************************************)
(* Two sessions of the game on one seed and one input sequence             *)
(***************************************************************************)
\* a step of an input sequence: a key press, or the time to the next frame
KeyStep(direction) == [k |-> "key", direction |-> direction, delta |-> 0]
FrameStep(delta) == [k |-> "frame", direction |-> "none", delta |-> delta]
Steps == {KeyStep(d) : d \in Directions} \cup {FrameStep(d) : d \in FrameDeltas}
Scripts == [seed : {0, MaxSeed}, steps : SeqsUpTo(Steps, ScriptLen)]

NoRun == [ended |-> FALSE, layout |-> <<>>, score |-> 0, gameOverCalls |-> <<>>]
NoScript == [seed |-> 0, steps |-> <<>>]

DetOff ==
  /\ script = NoScript
  /\ pc = 1
  /\ firstRun = NoRun

DetInit ==
  /\ script \in Scripts
  /\ pc = 1
  /\ firstRun = NoRun

\* what Lane generated for every row: kind, tree columns, vehicle slots,
\* direction, speed
Layout(ls) ==
  [i \in 1..Len(ls) |->
     [type |-> ls[i].type, occupiedPositions |-> ls[i].occupiedPositions,
      slots |-> ls[i].slots, direction |-> ls[i].direction, speed2 |-> ls[i].speed2]]

\* the session takes the next step of the script
Play ==
  /\ pc <= Len(script.steps)
  /\ LET st == script.steps[pc] IN
       IF st.k = "key" THEN move(st.direction)
       ELSE IF frameRequested THEN animate(previousTimestamp + st.delta)
       ELSE UNCHANGED gameVars
  /\ pc' = pc + 1
  /\ UNCHANGED <<script, firstRun>>

\* the first session is over; the second starts, with the same script
SecondSession ==
  /\ pc > Len(script.steps)
  /\ ~firstRun.ended
  /\ firstRun' = [ended |-> TRUE, layout |-> Layout(lanes), score |-> reportedScore,
                  gameOverCalls |-> gameOverCalls]
  /\ Remount
  /\ pc' = 1
  /\ UNCHANGED script

(***************************************************************************)
(* Two sessions on one board, given the same key presses at the same       *)
(* offsets from the start, their frames falling at different times         *)
(***************************************************************************)
NoOutcome == [at |-> 0, completions |-> <<>>, over |-> FALSE, calls |-> <<>>]

TimingOff ==
  /\ session = 0
  /\ board = 0
  /\ keyLog = <<>>
  /\ fed = 0
  /\ completions = <<>>
  /\ firstOutcome = NoOutcome

\* the first session is mounted
TimingInit ==
  /\ session = 1
  /\ board \in 0..(RandSteps - 1)
  /\ lanes = initializeValues(board).lanes
  /\ rng = initializeValues(board).rng
  /\ keyLog = <<>>
  /\ fed = 0
  /\ completions = <<>>
  /\ firstOutcome = NoOutcome

\* the moves a frame has completed are noted with the frame's timestamp
Noted(timestamp) ==
  /\ completions' =
       IF currentLane' # currentLane \/ currentColumn' # currentColumn
         THEN Append(completions, [at |-> timestamp, lane |-> currentLane',
                                   column |-> currentColumn'])
         ELSE completions

\* a key is pressed in the first session, right after the frame of
\* timestamp previousTimestamp (before the first frame when that is 0)
TimedKey ==
  /\ session = 1
  /\ Len(keyLog) < MaxKeys
  /\ \E direction \in Directions :
       /\ move(direction)
       /\ keyLog' = Append(keyLog, [at |-> previousTimestamp, direction |-> direction])
  /\ UNCHANGED <<session, board, fed, completions, firstOutcome>>

\* a frame of the first session
FirstSessionFrame ==
  /\ session = 1
  /\ \E timestamp \in (IF previousTimestamp = 0 THEN FirstFrames
                        ELSE {previousTimestamp + d : d \in FrameDeltas}) :
       /\ timestamp <= MaxWatch * 250
       /\ animate(timestamp)
       /\ Noted(timestamp)
  /\ UNCHANGED <<session, board, keyLog, fed, firstOutcome>>

\* the first session is looked at after one of its frames, and the second
\* is mounted on the same board
EndFirst ==
  /\ session = 1
  /\ previousTimestamp > 0
  /\ firstOutcome' = [at |-> previousTimestamp, completions |-> completions,
                      over |-> gameOver, calls |-> gameOverCalls]
  /\ session' = 2
  /\ RemountOn(board)
  /\ completions' = <<>>
  /\ fed' = 0
  /\ UNCHANGED <<board, keyLog>>

\* the second session is given the next key press of the first, no earlier
\* than the last frame before its offset
FeedKey ==
  /\ session = 2
  /\ fed < Len(keyLog)
  /\ previousTimestamp <= keyLog[fed + 1].at
  /\ move(keyLog[fed + 1].direction)
  /\ fed' = fed + 1
  /\ UNCHANGED <<session, board, keyLog, completions, firstOutcome>>

\* a frame of the second session, at any timestamp that leaves every key
\* press on its side of the frame
SecondSessionFrame ==
  /\ session = 2
  /\ \E timestamp \in (IF previousTimestamp = 0 THEN FirstFrames
                        ELSE {previousTimestamp + d : d \in FrameDeltas}) :
       /\ timestamp <= firstOutcome.at
       /\ fed > 0 => keyLog[fed].at < timestamp
       /\ fed < Len(keyLog) => keyLog[fed + 1].at >= timestamp
       /\ animate(timestamp)
       /\ Noted(timestamp)
  /\ UNCHANGED <<session, board, keyLog, fed, firstOutcome>>

(***************************************************************************)
(* The replay viewer: ReplayViewer.tsx                                     *)
(***************************************************************************)
\* getPlayer found no player or no replay_data
NoReplay == <<>>

\* the replay_data texts in the store: the artifact of a session on seed 42
\* with one forward, claiming any of the scores 0..MaxScore + 1, and a text
\* cut short
StoredArtifact(finalScore) ==
  RecordingObject(Num(42), Num(1700000000), Arr(<<EventObject(Num(0), Str("forward"))>>),
                  Num(finalScore), Num(1000), Str(version))

StoredTexts ==
  {NoReplay, <<Punct("{")>>} \cup {serialize(StoredArtifact(f)) : f \in 0..(MaxScore + 1)}

ViewOff ==
  /\ stored = NoReplay
  /\ viewerRecording = Null
  /\ replayState = "loading"
  /\ viewerError = Null
  /\ gameKey = 0

ViewInit ==
  /\ stored \in StoredTexts
  /\ viewerRecording = Null
  /\ replayState = "loading"
  /\ viewerError = Null
  /\ gameKey = 0

\* fetchReplay: ReplayViewer.tsx:23-43
fetchReplay ==
  /\ replayState = "loading"
  /\ IF stored = NoReplay
       THEN /\ viewerError' = Str("No replay data available for this player")
            /\ replayState' = "error"
            /\ UNCHANGED viewerRecording
       ELSE LET replayJson == JSONparse(stored) IN
         IF ~replayJson.ok
           THEN /\ viewerError' = Str(SyntaxError)
                /\ replayState' = "error"
                /\ UNCHANGED viewerRecording
           ELSE /\ viewerRecording' = Obj(replayJson.v)
                /\ replayState' = "ready"
                /\ UNCHANGED viewerError
  /\ UNCHANGED <<stored, gameKey>>

\* handlePlay: ReplayViewer.tsx:48-56; the new key mounts a new CrossyGame.
\* It is pressed once the loop of the game before has ended
handlePlay ==
  /\ gameKey < MaxPlays
  /\ ~frameRequested
  /\ IF replayState \in {"ready", "finished"}
       THEN /\ gameKey' = gameKey + 1
            /\ replayState' = "playing"
            /\ IF ~Falsy(viewerRecording) THEN Remount ELSE UNCHANGED gameVars
       ELSE /\ replayState = "paused"
            /\ replayState' = "playing"
            /\ UNCHANGED <<gameKey, gameVars>>
  /\ UNCHANGED <<stored, viewerRecording, viewerError>>

\* a key is pressed while the replay plays: the listener of CrossyGame
ReplayKeyDown ==
  /\ replayState = "playing"
  /\ KeyDown
  /\ UNCHANGED viewVars

\* a frame of the replayed game; its onGameOver is handleReplayComplete
\* (ReplayViewer.tsx:63-65, 160).  The loop is not cancelled on unmount
\* (CrossyGame.tsx:615-621), so its last frame runs after the replay finished
ReplayFrame ==
  /\ replayState \in {"playing", "finished"}
  /\ FrameBefore(MaxWatch * 250)
  /\ replayState' = (IF Len(gameOverCalls') > Len(gameOverCalls) THEN "finished"
                     ELSE replayState)
  /\ UNCHANGED <<stored, viewerRecording, viewerError, gameKey>>

(***************************************************************************)
(* The seeded generator: SeededRandom.ts                                   *)
(* A 32-bit word is a record [hi, lo] of two 16-bit halves; a number that  *)
(* may exceed 32 bits is [neg, wraps, hi, lo]: its sign, and its           *)
(* magnitude wraps * 2^32 + hi * 2^16 + lo.                                *)
(***************************************************************************)
Half == 65536
Word(hi, lo) == [hi |-> hi, lo |-> lo]
Number(neg, wraps, hi, lo) == [neg |-> neg, wraps |-> wraps, hi |-> hi, lo |-> lo]

\* bitwise ^ and | on naturals
RECURSIVE BitXor(_, _)
BitXor(a, b) ==
  IF a = 0 THEN b ELSE IF b = 0 THEN a
  ELSE 2 * BitXor(a \div 2, b \div 2) + ((a + b) % 2)

RECURSIVE BitOr(_, _)
BitOr(a, b) ==
  IF a = 0 THEN b ELSE IF b = 0 THEN a
  ELSE 2 * BitOr(a \div 2, b \div 2) + (IF a % 2 = 1 \/ b % 2 = 1 THEN 1 ELSE 0)

RECURSIVE Pow2(_)
Pow2(k) == IF k = 0 THEN 1 ELSE 2 * Pow2(k - 1)

\* a ^ b, a | c for a small constant c, a >>> k for k < 16, on words
Xor32(a, b) == Word(BitXor(a.hi, b.hi), BitXor(a.lo, b.lo))
Or32(a, c) == Word(a.hi, BitOr(a.lo, c))
Shr32(a, k) == Word(a.hi \div Pow2(k), (a.hi % Pow2(k)) * Pow2(16 - k) + a.lo \div Pow2(k))

\* a + b taken to 32 bits
Add32(a, b) ==
  Word((a.hi + b.hi + (a.lo + b.lo) \div Half) % Half, (a.lo + b.lo) % Half)

\* the low 16 bits of x * y, and x * y in full, for 16-bit x and y
MulLow16(x, y) == (x * (y % 256) + ((x * (y \div 256)) % 256) * 256) % Half
Mul16(x, y) ==
  LET a == x * (y % 256)
      b == x * (y \div 256)
      low == a + (b % 256) * 256
  IN  Word((b \div 256 + low \div Half) % Half, low % Half)

\* Math.imul(a, b): the low 32 bits of the product
imul(a, b) ==
  LET p == Mul16(a.lo, b.lo) IN
    Word((p.hi + MulLow16(a.hi, b.lo) + MulLow16(a.lo, b.hi)) % Half, p.lo)

\* Math.abs(seed) >>> 0: SeededRandom.ts:16, 77
Normalize(n) == Number(FALSE, 0, n.hi, n.lo)

\* 0x6D2B79F5
Increment == Word(27947, 31221)

\* this.seed += 0x6D2B79F5: the field is a number, not cut to 32 bits
Advance(n) ==
  LET lo == n.lo + Increment.lo
      hi == n.hi + Increment.hi + lo \div Half
  IN  Number(n.neg, n.wraps + hi \div Half, hi % Half, lo % Half)

\* the value random() returns, as the numerator of x / 4294967296, for the
\* field as it stands after the increment: SeededRandom.ts:25-28
Mulberry(n) ==
  LET t0 == Word(n.hi, n.lo)
      t1 == imul(Xor32(t0, Shr32(t0, 15)), Or32(t0, 1))
      t2 == Xor32(t1, Add32(t1, imul(Xor32(t1, Shr32(t1, 7)), Or32(t1, 61))))
  IN  Xor32(t2, Shr32(t2, 14))

\* the seeds given to the constructor and to reset: 0, 1, 42, 2^32 - 1,
\* -7 and 2^32 + 5
GenSeeds ==
  {Number(FALSE, 0, 0, 0), Number(FALSE, 0, 0, 1), Number(FALSE, 0, 0, 42),
   Number(FALSE, 0, Half - 1, Half - 1), Number(TRUE, 0, 0, 7), Number(FALSE, 1, 0, 5)}

Generators == {1, 2}
Key(sd, by) == [seed |-> sd, by |-> by]

GenOff ==
  /\ gens = [g \in Generators |-> Number(FALSE, 0, 0, 0)]
  /\ keys = [g \in Generators |-> Key(Number(FALSE, 0, 0, 0), "new")]
  /\ draws = [g \in Generators |-> <<>>]

\* new SeededRandom(seed), twice: SeededRandom.ts:14-17
GenInit ==
  /\ keys \in [Generators -> {Key(sd, "new") : sd \in GenSeeds}]
  /\ gens = [g \in Generators |-> Normalize(keys[g].seed)]
  /\ draws = [g \in Generators |-> <<>>]

\* reset that leaves the field as it is
resetKeep(g, newSeed) ==
  /\ UNCHANGED gens
  /\ keys' = [keys EXCEPT ![g] = Key(newSeed, "reset")]
  /\ draws' = [draws EXCEPT ![g] = <<>>]

\* random(): SeededRandom.ts:23-29
random(g) ==
  /\ Len(draws[g]) < MaxDraws
  /\ gens' = [gens EXCEPT ![g] = Advance(@)]
  /\ draws' = [draws EXCEPT ![g] = Append(@, Mulberry(Advance(gens[g])))]
  /\ UNCHANGED keys

\* reset(newSeed): SeededRandom.ts:76-78
reset(g, newSeed) ==
  /\ gens' = [gens EXCEPT ![g] = Normalize(newSeed)]
  /\ keys' = [keys EXCEPT ![g] = Key(newSeed, "reset")]
  /\ draws' = [draws EXCEPT ![g] = <<>>]

GenRandom == \E g \in Generators : random(g)
GenReset == \E g \in Generators, newSeed \in GenSeeds : reset(g, newSeed)

(***************************************************************************)
(* lineraClient (lineraClient.ts): the wallet, the local-storage fallback  *)
(* and the score contract the backend path talks to.                       *)
(***************************************************************************)
\* the faucet's chain ids and the mock addresses are new every time
Addresses == 1..MaxWallets
\* the scores submitted
SubmittedScores == {0, 1, MaxSubmitted}
\* Date.now() at a submission, in milliseconds
ClientClock == {999, 1000 * MaxWall}

\* PlayerData (lineraClient.ts:12-18) as a JavaScript value: an absent
\* property reads as Undefined
PlayerProps == <<"high_score", "games_played", "last_played_at", "display_name",
                 "replay_data">>
PlayerData(hs, gp, lp, dn, rd) ==
  [high_score |-> hs, games_played |-> gp, last_played_at |-> lp,
   display_name |-> dn, replay_data |-> rd]

\* JSON.stringify(playerData)
stringifyPlayer(playerData) ==
  <<Punct("{")>> \o StringifyProps(playerData, PlayerProps, 1, TRUE) \o <<Punct("}")>>

\* JSON.parse(existingData), read through the property names of PlayerData
parsePlayer(text) ==
  LET m == ParseValue(text, 1, 0).v.v IN
    PlayerData(Member(m, "high_score", Len(m)), Member(m, "games_played", Len(m)),
               Member(m, "last_played_at", Len(m)), Member(m, "display_name", Len(m)),
               Member(m, "replay_data", Len(m)))

\* Math.max(a, b) and Math.floor(a / b) on numbers
MathMax(a, b) == IF a.v >= b.v THEN a ELSE b
MathFloorDiv(a, b) == a \div b

\* the display names and the replay data the calls are given
DisplayNames == <<Undefined, Str("ann")>>
SampleRecording(sd) ==
  Obj(RecordingObject(Num(sd), Num(1), Arr(<<EventObject(Num(0), Str("forward"))>>),
                      Num(1), Num(0), Str("1.0")))
ReplayArgs == <<Undefined, SampleRecording(1)>>

\* a JSON text held in a string property
Text(toks) == [t |-> "text", v |-> toks]
\* let replayDataJson = null; if (replayData) replayDataJson = JSON.stringify(replayData)
\* (lineraClient.ts:201-209)
replayDataJson(replayData) ==
  IF Falsy(replayData) THEN Null ELSE Text(JSONstringify(replayData.v))

Bool(b) == [t |-> "boolean", v |-> IF b THEN 1 ELSE 0]
NotConnectedError == "Wallet not connected"
Returned(op, err, x) == [op |-> op, thrown |-> err, value |-> x]

\* the contract's record of a player: none before the first accepted message
NoPlayer == [present |-> FALSE, high_score |-> 0, games_played |-> 0,
             display_name |-> Undefined, replay_data |-> Undefined]

\* the replies of backend.query to a mutation: data true, data false, errors
MutationReplies == {"true", "false", "errors"}

\* the contract executing SaveScore for the signer a: the score overwrites
\* the stored one only if strictly greater, and the replay is kept
ContractSaveScore(a, sc, json) ==
  [chain EXCEPT ![a] =
     [present |-> TRUE,
      high_score |-> IF sc > @.high_score THEN sc ELSE @.high_score,
      games_played |-> @.games_played + 1,
      display_name |-> @.display_name,
      replay_data |-> IF json.t = "text" THEN json ELSE @.replay_data]]

\* the contract executing RegisterPlayer for the signer a
ContractRegisterPlayer(a, displayName) ==
  [chain EXCEPT ![a] = [@ EXCEPT !.present = TRUE, !.display_name = displayName]]

\* the service answering the player query
ContractPlayer(a) ==
  IF chain[a].present
    THEN Obj(PlayerData(Num(chain[a].high_score), Num(chain[a].games_played),
                        Undefined, chain[a].display_name, chain[a].replay_data))
    ELSE Null

ClientOff ==
  /\ walletAddress = 0
  /\ backend = FALSE
  /\ addresses = 0
  /\ localStorage = [a \in Addresses |-> <<>>]
  /\ chain = [a \in Addresses |-> NoPlayer]
  /\ saved = [a \in Addresses |-> <<>>]
  /\ returned = Returned("none", NoError, Undefined)

\* the successful saveScore calls so far, over all wallets
RECURSIVE SavedCount(_)
SavedCount(a) == IF a = 0 THEN 0 ELSE Len(saved[a]) + SavedCount(a - 1)

\* connectWallet (lineraClient.ts:55-96): either every step succeeds, or one
\* throws and the catch block replaces the address by a mock one; backend is
\* assigned (line 69) before the last step that can throw (line 72)
connectWallet ==
  /\ addresses < MaxWallets
  /\ addresses' = addresses + 1
  /\ walletAddress' = addresses + 1
  /\ \E outcome \in {"connected", "mock", "mock after backend"} :
       backend' = IF outcome = "mock" THEN backend ELSE TRUE
  /\ returned' = Returned("connectWallet", NoError, Num(addresses + 1))
  /\ UNCHANGED <<localStorage, chain, saved>>

\* disconnectWallet (lineraClient.ts:101-105)
disconnectWallet ==
  /\ walletAddress' = 0
  /\ backend' = FALSE
  /\ returned' = Returned("disconnectWallet", NoError, Undefined)
  /\ UNCHANGED <<addresses, localStorage, chain, saved>>

\* registerPlayer(displayName) (lineraClient.ts:128-187)
registerPlayer(displayName) ==
  IF walletAddress = 0
    THEN /\ returned' = Returned("registerPlayer", NotConnectedError, Undefined)
         /\ UNCHANGED <<walletAddress, backend, addresses, localStorage, chain, saved>>
  ELSE IF backend
    THEN \E reply \in MutationReplies :
           /\ chain' = IF reply = "true"
                         THEN ContractRegisterPlayer(walletAddress, displayName)
                         ELSE chain
           /\ returned' = Returned("registerPlayer", NoError, Bool(reply = "true"))
           /\ UNCHANGED <<walletAddress, backend, addresses, localStorage, saved>>
    ELSE LET existingData == localStorage[walletAddress]
             playerData ==
               IF existingData # <<>>
                 THEN [parsePlayer(existingData) EXCEPT !.display_name = displayName]
                 ELSE PlayerData(Num(0), Num(0), Undefined, displayName, Undefined)
         IN  /\ localStorage' =
                  [localStorage EXCEPT ![walletAddress] = stringifyPlayer(playerData)]
             /\ returned' = Returned("registerPlayer", NoError, Bool(TRUE))
             /\ UNCHANGED <<walletAddress, backend, addresses, chain, saved>>

\* the fallback's record that takes the submitted score whatever is stored
fallbackPlayerDataOverwrite(existingData, sc, timestamp) ==
  IF existingData # <<>>
    THEN PlayerData(Num(sc), Num(parsePlayer(existingData).games_played.v + 1),
                    Num(timestamp), Undefined, Undefined)
    ELSE PlayerData(Num(sc), Num(1), Num(timestamp), Undefined, Undefined)

\* the record the fallback of saveScore writes (lineraClient.ts:240-256)
fallbackPlayerData(existingData, sc, timestamp) ==
  IF existingData # <<>>
    THEN LET existing == parsePlayer(existingData) IN
           PlayerData(MathMax(existing.high_score, Num(sc)),
                      Num(existing.games_played.v + 1), Num(timestamp),
                      Undefined, Undefined)
    ELSE PlayerData(Num(sc), Num(1), Num(timestamp), Undefined, Undefined)

\* saveScore(score, replayData) (lineraClient.ts:192-267)
saveScore(sc, replayData, now) ==
  IF walletAddress = 0
    THEN /\ returned' = Returned("saveScore", NotConnectedError, Undefined)
         /\ UNCHANGED <<walletAddress, backend, addresses, localStorage, chain, saved>>
  ELSE LET timestamp == MathFloorDiv(now, 1000)
           json == replayDataJson(replayData)
           entry == [score |-> sc, replay |-> json]
       IN
    IF backend
      THEN \E reply \in MutationReplies :
             /\ chain' = IF reply = "true" THEN ContractSaveScore(walletAddress, sc, json)
                                          ELSE chain
             /\ saved' = IF reply = "true"
                           THEN [saved EXCEPT ![walletAddress] = Append(@, entry)]
                           ELSE saved
             /\ returned' = Returned("saveScore", NoError, Bool(reply = "true"))
             /\ UNCHANGED <<walletAddress, backend, addresses, localStorage>>
      ELSE LET existingData == localStorage[walletAddress]
               playerData == fallbackPlayerData(existingData, sc, timestamp)
           IN  /\ localStorage' =
                    [localStorage EXCEPT ![walletAddress] = stringifyPlayer(playerData)]
               /\ saved' = [saved EXCEPT ![walletAddress] = Append(@, entry)]
               /\ returned' = Returned("saveScore", NoError, Bool(TRUE))
               /\ UNCHANGED <<walletAddress, backend, addresses, chain>>

\* what getPlayer(address) resolves to (lineraClient.ts:336-366): the
\* service's answer on the backend path, the parsed text on the fallback
PlayerOf(address) ==
  IF backend THEN ContractPlayer(address)
  ELSE IF localStorage[address] # <<>> THEN Obj(parsePlayer(localStorage[address]))
  ELSE Null

\* getPlayer(walletAddress?) (lineraClient.ts:332-372); 0 stands for no argument
getPlayer(arg) ==
  LET address == IF arg # 0 THEN arg ELSE walletAddress IN
    /\ returned' = Returned("getPlayer", NoError,
                            IF address = 0 THEN Null ELSE PlayerOf(address))
    /\ UNCHANGED <<walletAddress, backend, addresses, localStorage, chain, saved>>

CallRegisterPlayer == \E i \in 1..Len(DisplayNames) : registerPlayer(DisplayNames[i])
CallSaveScore ==
  /\ SavedCount(MaxWallets) < MaxSaves
  /\ \E sc \in SubmittedScores, i \in 1..Len(ReplayArgs), now \in ClientClock :
       saveScore(sc, ReplayArgs[i], now)
CallGetPlayer == \E arg \in 0..addresses : getPlayer(arg)

(***************************************************************************)
(* The App component (App.tsx) with the WalletConnect button and the       *)
(* GameUI screens: what a click can reach is what the screen shows.        *)
(***************************************************************************)
\* the initial state of App (App.tsx:15-19) and WalletConnect (WalletConnect.tsx:11-12)
AppOff ==
  /\ gameState = "menu"
  /\ score = 0
  /\ appWalletAddress = 0
  /\ submittingScore = FALSE
  /\ appGameKey = 0
  /\ wcWalletAddress = 0
  /\ connecting = FALSE
  /\ timers = 0
  /\ submission = "none"

\* the Leaderboard overlay (Leaderboard.tsx:42) covers every other control
Covered == gameState = "leaderboard"
\* walletConnected={!!walletAddress} (App.tsx:144)
walletConnected == appWalletAddress # 0
\* the menu screen and the game-over screen of GameUI (GameUI.tsx:36, 81)
MenuScreen == gameState = "menu"
GameOverScreen == gameState = "gameover"

\* handleWalletDisconnect (App.tsx:36-42)
handleWalletDisconnect ==
  /\ appWalletAddress' = 0
  /\ gameState' = IF gameState = "playing" THEN "menu" ELSE gameState

\* handleStartGame (App.tsx:44-48)
handleStartGame ==
  /\ score' = 0
  /\ gameState' = "playing"
  /\ appGameKey' = appGameKey + 1

\* handleConnect up to its await (WalletConnect.tsx:14-17): the button is
\* shown while WalletConnect holds no address and is disabled while connecting
ConnectClick ==
  /\ ~Covered /\ wcWalletAddress = 0 /\ ~connecting
  /\ addresses < MaxWallets
  /\ connecting' = TRUE
  /\ UNCHANGED <<gameState, score, appWalletAddress, submittingScore, appGameKey,
                 wcWalletAddress, timers, submission>>
  /\ UNCHANGED clientVars

\* handleConnect after connectWallet resolved (WalletConnect.tsx:17-24), with
\* handleWalletConnect (App.tsx:29-34)
ConnectResolved ==
  /\ connecting
  /\ connectWallet
  /\ wcWalletAddress' = walletAddress'
  /\ appWalletAddress' = walletAddress'
  /\ connecting' = FALSE
  /\ UNCHANGED <<gameState, score, submittingScore, appGameKey, timers, submission>>

\* handleDisconnect (WalletConnect.tsx:27-31)
DisconnectClick ==
  /\ ~Covered /\ wcWalletAddress # 0
  /\ disconnectWallet
  /\ wcWalletAddress' = 0
  /\ handleWalletDisconnect
  /\ UNCHANGED <<score, submittingScore, appGameKey, connecting, timers, submission>>

\* the Start Game button (GameUI.tsx:46-54)
StartClick ==
  /\ MenuScreen /\ walletConnected
  /\ appGameKey < MaxGames
  /\ handleStartGame
  /\ UNCHANGED <<appWalletAddress, submittingScore, wcWalletAddress, connecting,
                 timers, submission>>
  /\ UNCHANGED clientVars

\* the Retry button (GameUI.tsx:106-111) with handleRetry (App.tsx:69-71)
RetryClick ==
  /\ GameOverScreen
  /\ appGameKey < MaxGames
  /\ handleStartGame
  /\ UNCHANGED <<appWalletAddress, submittingScore, wcWalletAddress, connecting,
                 timers, submission>>
  /\ UNCHANGED clientVars

\* handleGameOver(finalScore) (App.tsx:50-63), called by the animation loop
\* of a mounted game (CrossyGame.tsx:600-601); the loop is not cancelled
\* when the game is unmounted (CrossyGame.tsx:615-621)
handleGameOver ==
  /\ appGameKey > 0
  /\ \E finalScore \in SubmittedScores : score' = finalScore
  /\ gameState' = "gameover"
  /\ UNCHANGED <<appWalletAddress, submittingScore, appGameKey, wcWalletAddress,
                 connecting, timers, submission>>
  /\ UNCHANGED clientVars

\* handleScoreChange(newScore) (App.tsx:65-67)
handleScoreChange ==
  /\ appGameKey > 0
  /\ \E newScore \in SubmittedScores : score' = newScore
  /\ UNCHANGED <<gameState, appWalletAddress, submittingScore, appGameKey,
                 wcWalletAddress, connecting, timers, submission>>
  /\ UNCHANGED clientVars

\* handleSubmitScore (App.tsx:73-105) from the Submit button (GameUI.tsx:96-104):
\* lineraClient.saveScore(score) runs at once; on the backend path what
\* follows its await runs when the reply is in, on the fallback right away
SubmitClick ==
  /\ GameOverScreen /\ walletConnected /\ ~submittingScore
  /\ SavedCount(MaxWallets) < MaxSaves
  /\ \E now \in ClientClock : saveScore(score, Undefined, now)
  /\ LET success == returned'.thrown = NoError /\ returned'.value.v = 1 IN
       IF backend
         THEN /\ submittingScore' = TRUE
              /\ submission' = IF success THEN "saved" ELSE "failed"
              /\ timers' = timers
         ELSE /\ submittingScore' = FALSE
              /\ submission' = "none"
              /\ timers' = IF success THEN timers + 1 ELSE timers
  /\ UNCHANGED <<gameState, score, appWalletAddress, appGameKey, wcWalletAddress,
                 connecting>>

\* handleSubmitScore after the await (App.tsx:83-104)
SubmitResolved ==
  /\ submission # "none"
  /\ timers' = IF submission = "saved" THEN timers + 1 ELSE timers
  /\ submittingScore' = FALSE
  /\ submission' = "none"
  /\ UNCHANGED <<gameState, score, appWalletAddress, appGameKey, wcWalletAddress,
                 connecting>>
  /\ UNCHANGED clientVars

\* the callback of setTimeout (App.tsx:89-91)
TimerFires ==
  /\ timers > 0
  /\ timers' = timers - 1
  /\ gameState' = "leaderboard"
  /\ UNCHANGED <<score, appWalletAddress, submittingScore, appGameKey,
                 wcWalletAddress, connecting, submission>>
  /\ UNCHANGED clientVars

\* handleViewLeaderboard (App.tsx:107-109) from either screen (GameUI.tsx:55-61, 113-119)
handleViewLeaderboard ==
  /\ (MenuScreen /\ walletConnected) \/ GameOverScreen
  /\ gameState' = "leaderboard"
  /\ UNCHANGED <<score, appWalletAddress, submittingScore, appGameKey,
                 wcWalletAddress, connecting, timers, submission>>
  /\ UNCHANGED clientVars

\* handleCloseLeaderboard (App.tsx:111-113)
handleCloseLeaderboard ==
  /\ gameState = "leaderboard"
  /\ gameState' = "menu"
  /\ UNCHANGED <<score, appWalletAddress, submittingScore, appGameKey,
                 wcWalletAddress, connecting, timers, submission>>
  /\ UNCHANGED clientVars



(***************************************************************************)
(* Properties of the codec                                                 *)
(***************************************************************************)
EventsOf(rec) == rec.inputs.v
TimestampOf(x) == x.v.timestamp.v
ActionOf(x) == x.v.action.v

HasDecreasingPair(rec) ==
  \E i \in 2..Len(EventsOf(rec)) :
    TimestampOf(EventsOf(rec)[i]) < TimestampOf(EventsOf(rec)[i - 1])

HasEqualPair(rec) ==
  \E i \in 2..Len(EventsOf(rec)) :
    TimestampOf(EventsOf(rec)[i]) = TimestampOf(EventsOf(rec)[i - 1])

HasUnknownAction(rec) ==
  \E i \in 1..Len(EventsOf(rec)) : ActionOf(EventsOf(rec)[i]) \notin Actions

RequiredFieldsPresent(rec) == rec.seed.v # 0 /\ rec.startTime.v # 0

\* C4: for every artifact validate accepts, deserialize(serialize(a))
\* returns without error an artifact equal to a in all six fields.
C4_CodecRoundTrip ==
  (decoded.thrown # Unset /\ validate(art) = "true") =>
     /\ decoded.thrown = NoError
     /\ decoded.value.seed = art.seed
     /\ decoded.value.startTime = art.startTime
     /\ decoded.value.inputs = art.inputs
     /\ decoded.value.finalScore = art.finalScore
     /\ decoded.value.duration = art.duration
     /\ decoded.value.version = art.version

\* an accepted artifact with two inputs, a large seed and a negative
\* duration came back from the round trip
C4_Witness ==
  /\ validate(art) = "true"
  /\ decoded.thrown = NoError
  /\ decoded.value = art
  /\ Len(EventsOf(art)) = 2
  /\ art.seed.v > 9
  /\ art.duration.v < 0

\* C5: validate returns false for an artifact with a decreasing adjacent
\* pair of timestamps or with an action outside the four known ones; an
\* artifact with its required fields, known actions and non-decreasing
\* timestamps is accepted, equal adjacent timestamps included.
C5_ValidateCorrect ==
  validated # Unset =>
     /\ HasDecreasingPair(art) => validated = "false"
     /\ HasUnknownAction(art) => validated = "false"
     /\ (RequiredFieldsPresent(art) /\ ~HasDecreasingPair(art) /\ ~HasUnknownAction(art))
          => validated = "true"

\* validate rejected an artifact whose only defect is a decreasing pair
C5_Witness ==
  /\ validated = "false"
  /\ RequiredFieldsPresent(art)
  /\ HasDecreasingPair(art)
  /\ ~HasUnknownAction(art)

\* validate accepted an artifact with two inputs at the same timestamp
C5_EqualAccepted ==
  /\ validated = "true"
  /\ HasEqualPair(art)

(***************************************************************************)
(* Properties of the recorder                                              *)
(***************************************************************************)
\* the GameRecording with reference o, its inputs array read from the heap
RecordingValue(o) == [recordings[o] EXCEPT !.inputs = arrays[recordings[o].inputs]]

NonDecreasing(evs) == \A i \in 2..Len(evs) : evs[i].timestamp >= evs[i - 1].timestamp

LastCall == calls[Len(calls)]
Called(op) == Len(calls') = Len(calls) + 1 /\ calls'[Len(calls')].op = op
ReturnedBy(i) == calls[i].op = "stop" /\ calls[i].ret # 0

\* C3: every artifact stop returned has inputs with non-decreasing
\* timestamps, whatever the wall clock did during the session.
C3_RecorderOrdering ==
  \A o \in 1..Len(recordings) : NonDecreasing(RecordingValue(o).inputs)

\* an artifact with two inputs at different offsets, from a session during
\* which the wall clock was set back
C3_Witness ==
  \E o \in 1..Len(recordings) :
    LET a == RecordingValue(o) IN
      /\ Len(a.inputs) >= 2
      /\ a.inputs[2].timestamp > a.inputs[1].timestamp
      /\ a.duration < 0

\* C7: stop while the recorder is idle raises 'Recorder is not active',
\* returns no artifact and leaves the recorder's fields and buffer unchanged.
C7_StopWhileIdle ==
  [][(Called("stop") /\ ~recording) =>
        /\ thrown' = NotActiveError
        /\ calls'[Len(calls')].ret = 0
        /\ recordings' = recordings
        /\ UNCHANGED <<recording, seed, startTime, gameStartTimestamp, inputs, arrays>>
    ]_vars

\* stop was called before any start, and again after a stop that returned
C7_Witness ==
  /\ Len(calls) >= 4
  /\ calls[1].op = "stop" /\ calls[1].ret = 0
  /\ \E i \in 2..(Len(calls) - 1) : ReturnedBy(i)
  /\ LastCall.op = "stop" /\ LastCall.ret = 0
  /\ thrown = NotActiveError

\* C8: recordInput while the recorder is idle raises nothing and leaves the
\* buffer, the input count, the seed and the recording flag unchanged.
C8_RecordWhileIdle ==
  [][(Called("recordInput") /\ ~recording) =>
        /\ thrown' = NoError
        /\ arrays'[inputs'] = arrays[inputs]
        /\ getInputCount' = getInputCount
        /\ UNCHANGED <<recording, seed, inputs, arrays>>
    ]_vars

\* recordInput was called before any start, and again after a stop that
\* returned an artifact
C8_Witness ==
  /\ Len(calls) >= 4
  /\ calls[1].op = "recordInput"
  /\ \E i \in 2..(Len(calls) - 1) : ReturnedBy(i)
  /\ LastCall.op = "recordInput"
  /\ ~recording

\* the most recent start call before call i
LastStartBefore(i) ==
  CHOOSE j \in 1..(i - 1) :
    /\ calls[j].op = "start"
    /\ \A k \in (j + 1)..(i - 1) : calls[k].op # "start"

IsRecordCall(c) == c.op = "recordInput"

\* the actions passed to recordInput between calls j and i, in call order
ActionsBetween(j, i) ==
  LET cs == SelectSeq(SubSeq(calls, j + 1, i - 1), IsRecordCall)
  IN  [k \in 1..Len(cs) |-> cs[k].arg]

ActionsOf(evs) == [k \in 1..Len(evs) |-> evs[k].action]

\* C9: the artifact stop returns holds exactly the actions recorded since the
\* most recent start, in call order, with that start's seed and start time,
\* the given final score and version '1.0.0'; the recorder is idle afterwards.
C9_StopArtifact ==
  /\ \A i \in 1..Len(calls) :
       ReturnedBy(i) =>
         /\ \E j \in 1..(i - 1) : calls[j].op = "start"
         /\ LET a == RecordingValue(calls[i].ret)
                j == LastStartBefore(i)
            IN  /\ ActionsOf(a.inputs) = ActionsBetween(j, i)
                /\ a.seed = calls[j].logged
                /\ a.startTime = calls[j].at
                /\ a.finalScore = calls[i].arg
                /\ a.version = "1.0.0"
  /\ (Len(calls) > 0 /\ ReturnedBy(Len(calls))) => ~isRecording

\* an input was recorded, the recorder was restarted, and stop returned an
\* artifact without that input
C9_Witness ==
  /\ Len(calls) >= 4
  /\ calls[1].op = "start"
  /\ calls[2].op = "recordInput"
  /\ calls[3].op = "start"
  /\ ReturnedBy(4)
  /\ RecordingValue(calls[4].ret).inputs = <<>>

\* C10: no later start, recordInput or stop changes an artifact that stop
\* has returned.
C10_ArtifactImmutable ==
  [][\A o \in 1..Len(recordings) :
        /\ o \in 1..Len(recordings')
        /\ RecordingValue(o)' = RecordingValue(o)]_vars

\* an artifact was returned, then the recorder was started again and returned
\* a second, different artifact
C10_Witness ==
  /\ Len(recordings) = 2
  /\ RecordingValue(1) # RecordingValue(2)
  /\ \E i \in 1..Len(calls) :
       /\ ReturnedBy(i)
       /\ \E j \in (i + 1)..Len(calls) : calls[j].op = "start"

Init == RecInit /\ CodecOff /\ GameOff /\ DetOff /\ ViewOff /\ GenOff /\ ClientOff /\ AppOff /\ TimingOff

Next ==
  \/ CallStart /\ UNCHANGED <<codecVars, gameVars, detVars, viewVars, genVars, clientVars, appVars, timingVars>>
  \/ CallRecordInput /\ UNCHANGED <<codecVars, gameVars, detVars, viewVars, genVars, clientVars, appVars, timingVars>>
  \/ CallStop /\ UNCHANGED <<codecVars, gameVars, detVars, viewVars, genVars, clientVars, appVars, timingVars>>

Spec == Init /\ [][Next]_vars

(***************************************************************************)
(* The codec: validate, serialize and deserialize applied to an artifact   *)
(***************************************************************************)
InitCodec == RecInit /\ CodecInit /\ GameOff /\ DetOff /\ ViewOff /\ GenOff /\ ClientOff /\ AppOff /\ TimingOff

NextCodec ==
  \/ CodecValidate /\ UNCHANGED <<recVars, gameVars, detVars, viewVars, genVars, clientVars, appVars, timingVars>>
  \/ CodecSerialize /\ UNCHANGED <<recVars, gameVars, detVars, viewVars, genVars, clientVars, appVars, timingVars>>
  \/ CodecDeserialize /\ UNCHANGED <<recVars, gameVars, detVars, viewVars, genVars, clientVars, appVars, timingVars>>

SpecCodec == InitCodec /\ [][NextCodec]_vars

(***************************************************************************)
(* One mounted game, driven by key presses and animation frames            *)
(***************************************************************************)
InitGame == RecInit /\ CodecOff /\ Mount /\ DetOff /\ ViewOff /\ GenOff /\ ClientOff /\ AppOff /\ TimingOff

NextGame ==
  \/ KeyDown /\ UNCHANGED <<recVars, codecVars, detVars, viewVars, genVars, clientVars, appVars, timingVars>>
  \/ Frame /\ UNCHANGED <<recVars, codecVars, detVars, viewVars, genVars, clientVars, appVars, timingVars>>

SpecGame == InitGame /\ [][NextGame]_vars

(***************************************************************************)
(* Two sessions, one after the other, on the same seed and inputs          *)
(***************************************************************************)
InitDet == RecInit /\ CodecOff /\ Mount /\ DetInit /\ ViewOff /\ GenOff /\ ClientOff /\ AppOff /\ TimingOff

NextDet ==
  \/ Play /\ UNCHANGED <<recVars, codecVars, viewVars, genVars, clientVars, appVars, timingVars>>
  \/ SecondSession /\ UNCHANGED <<recVars, codecVars, viewVars, genVars, clientVars, appVars, timingVars>>

SpecDet == InitDet /\ [][NextDet]_vars

(***************************************************************************)
(* The replay viewer over a stored artifact                                *)
(***************************************************************************)
InitReplay == RecInit /\ CodecOff /\ GameOff /\ DetOff /\ ViewInit /\ GenOff /\ ClientOff /\ AppOff /\ TimingOff

NextReplay ==
  \/ fetchReplay /\ UNCHANGED <<recVars, codecVars, gameVars, detVars, genVars, clientVars, appVars, timingVars>>
  \/ handlePlay /\ UNCHANGED <<recVars, codecVars, detVars, genVars, clientVars, appVars, timingVars>>
  \/ ReplayKeyDown /\ UNCHANGED <<recVars, codecVars, detVars, genVars, clientVars, appVars, timingVars>>
  \/ ReplayFrame /\ UNCHANGED <<recVars, codecVars, detVars, genVars, clientVars, appVars, timingVars>>

SpecReplay == InitReplay /\ [][NextReplay]_vars

(***************************************************************************)
(* Properties of the game                                                  *)
(***************************************************************************)
\* C1: two sessions run with the same seed and the same input sequence
\* generate the same row layouts (kind, tree columns, vehicle slots,
\* direction, speed of every row) and end with the same scores
C1_Determinism ==
  (firstRun.ended /\ pc > Len(script.steps))
    => /\ Layout(lanes) = firstRun.layout
       /\ reportedScore = firstRun.score
       /\ gameOverCalls = firstRun.gameOverCalls

\* C2: a replay that ended with a score other than the finalScore its
\* artifact claims is reported as a mismatch
C2_VerifierSound ==
  (/\ replayState = "finished"
   /\ viewerRecording.t = "object"
   /\ viewerRecording.v.finalScore # Num(gameOverCalls[1]))
    => viewerError.t # "null"

\* the column the player stands in once the queued moves are applied
RECURSIVE ProjectedColumn(_, _)
ProjectedColumn(mvs, c) ==
  IF mvs = <<>> THEN c
  ELSE ProjectedColumn(Tail(mvs), CASE Head(mvs) = "left" -> c - 1
                                    [] Head(mvs) = "right" -> c + 1
                                    [] OTHER -> c)

\* C6: a call of move("left") when the player's column, counting the moves
\* already queued, is 0, and a call of move("right") when it is columns - 1,
\* queues nothing: the lane, the column and the queue stay as they were
C6_BoundaryMoves ==
  [][ /\ KeyDown
      /\ \/ ProjectedColumn(moves, currentColumn) = 0 /\ move("left")
         \/ ProjectedColumn(moves, currentColumn) = columns - 1 /\ move("right")
      => /\ moves' = moves
         /\ currentLane' = currentLane
         /\ currentColumn' = currentColumn ]_vars

\* the player has reached column 0 with a left still queued behind it, or
\* column columns - 1 likewise, and the queue is what it was: a further
\* press of the same key has nothing to add
C6_Witness ==
  /\ ~gameOver
  /\ Len(moves) < MaxQueue
  /\ \/ ProjectedColumn(moves, currentColumn) = 0 /\ currentColumn = 1
     \/ ProjectedColumn(moves, currentColumn) = columns - 1 /\ currentColumn = columns - 2

(***************************************************************************)
(* Further properties of the recorder                                      *)
(***************************************************************************)
\* C11: when start is given an explicit seed s, the artifact the next stop
\* returns has seed = s, whatever s is (0 included)
C11_ExplicitSeed ==
  \A i \in 1..Len(calls) :
    (ReturnedBy(i) /\ calls[LastStartBefore(i)].arg.given)
      => recordings[calls[i].ret].seed = calls[LastStartBefore(i)].arg.value

(***************************************************************************)
(* The codec applied to values of any shape                                *)
(***************************************************************************)
\* what a caller can pass for a seed, a start time and an input list, by
\* number
SeedShapes == <<Undefined, Null, Num(0), Num(42), Num(2147483647), Str("abc"), Str("")>>
StartTimeShapes == <<Undefined, Num(0), Num(1700000000)>>
InputsShapes ==
  <<Undefined, Null, Num(1), Str("ab"),
    EventObject(Num(0), Str("forward")),
    Arr(<<>>),
    Arr(<<EventObject(Num(0), Str("forward"))>>),
    Arr(<<EventObject(Num(0), Str("forward")), EventObject(Num(0), Str("left"))>>),
    Arr(<<Null>>),
    Arr(<<Num(5)>>),
    Arr(<<EventObject(Num(0), Str("forward")), Null>>)>>

ShapeInput(i, j, k) ==
  RecordingObject(SeedShapes[i], StartTimeShapes[j], InputsShapes[k],
                  Num(3), Num(1000), Str(version))

\* texts that are no JSON object: null, a number, a text cut short
RawTexts == {<<NullTok>>, NumText(5), <<Punct("{")>>}

ShapesInit ==
  /\ validated = Unset
  /\ decoded = NotDecoded
  /\ \/ /\ \E i \in 1..Len(SeedShapes), j \in 1..Len(StartTimeShapes),
               k \in 1..Len(InputsShapes) : art = ShapeInput(i, j, k)
        /\ wire = <<>>
     \/ art = NotDecoded.value /\ wire \in RawTexts

InitShapes == RecInit /\ ShapesInit /\ GameOff /\ DetOff /\ ViewOff /\ GenOff /\ ClientOff /\ AppOff /\ TimingOff

SpecShapes == InitShapes /\ [][NextCodec]_vars

\* the value JSON.parse made of the text
DecodedData == JSONparse(wire).v

\* C12: deserialize raises 'Invalid recording format' whenever the decoded
\* data lacks a seed or an input list, or has a seed that is no number or
\* an inputs field that is no list; in every other case it returns the
\* decoded artifact
C12_DeserializeErrors ==
  (decoded.thrown # Unset /\ JSONparse(wire).ok) =>
    IF \/ DecodedData.seed.t # "number"
       \/ DecodedData.inputs.t # "array"
      THEN decoded.thrown = InvalidFormatError
      ELSE decoded.thrown = NoError /\ decoded.value = DecodedData

\* C13: validate never raises: it returns true or false for every value
C13_ValidateTotal == validated \in {Unset, "true", "false"}

\* C15: an artifact that is well formed but for its seed is accepted by
\* validate and by deserialize whatever number in 0 .. 2^32 - 1 the seed is
C15_SeedNeverRejected ==
  (/\ art.seed.t = "number" /\ art.seed.v >= 0
   /\ art.startTime.t = "number" /\ art.startTime.v > 0
   /\ art.inputs.t = "array"
   /\ \A k \in 1..Len(art.inputs.v) : art.inputs.v[k].t = "object")
    => /\ validated \in {Unset, "true"}
       /\ decoded.thrown \in {Unset, NoError}

(***************************************************************************)
(* Two generators, drawn from and reset in any order                       *)
(***************************************************************************)
InitGen == RecInit /\ CodecOff /\ GameOff /\ DetOff /\ ViewOff /\ GenInit /\ ClientOff /\ AppOff /\ TimingOff

NextGen ==
  \/ GenRandom /\ UNCHANGED <<recVars, codecVars, gameVars, detVars, viewVars, clientVars, appVars, timingVars>>
  \/ GenReset /\ UNCHANGED <<recVars, codecVars, gameVars, detVars, viewVars, clientVars, appVars, timingVars>>

SpecGen == InitGen /\ [][NextGen]_vars

\* C14: two generators constructed with, or reset to, the same seed have
\* returned the same values on their 1st, 2nd, ..., n-th draw since then
C14_Reproducible ==
  keys[1].seed = keys[2].seed =>
    \A n \in 1..Len(draws[1]) : n <= Len(draws[2]) => draws[1][n] = draws[2][n]

\* a fresh generator and one that was drawn from and then reset to the same
\* seed have both been drawn from MaxDraws times, and not all draws are equal
C14_Witness ==
  /\ keys[1].seed = keys[2].seed
  /\ keys[1].by = "new" /\ keys[2].by = "reset"
  /\ Len(draws[1]) = MaxDraws /\ Len(draws[2]) = MaxDraws
  /\ draws[1][1] # draws[1][2]


(***************************************************************************)
(* The lineraClient called directly.                                       *)
(***************************************************************************)
InitClient == RecInit /\ CodecOff /\ GameOff /\ DetOff /\ ViewOff /\ GenOff /\ ClientOff /\ AppOff /\ TimingOff

NextClient ==
  \/ connectWallet /\ UNCHANGED <<recVars, codecVars, gameVars, detVars, viewVars, genVars, appVars, timingVars>>
  \/ disconnectWallet /\ UNCHANGED <<recVars, codecVars, gameVars, detVars, viewVars, genVars, appVars, timingVars>>
  \/ CallRegisterPlayer /\ UNCHANGED <<recVars, codecVars, gameVars, detVars, viewVars, genVars, appVars, timingVars>>
  \/ CallSaveScore /\ UNCHANGED <<recVars, codecVars, gameVars, detVars, viewVars, genVars, appVars, timingVars>>
  \/ CallGetPlayer /\ UNCHANGED <<recVars, codecVars, gameVars, detVars, viewVars, genVars, appVars, timingVars>>

SpecClient == InitClient /\ [][NextClient]_vars

(***************************************************************************)
(* The App driven through its screens.                                     *)
(***************************************************************************)
InitApp == RecInit /\ CodecOff /\ GameOff /\ DetOff /\ ViewOff /\ GenOff /\ ClientOff /\ AppOff /\ TimingOff

NextApp ==
  \/ ConnectClick /\ UNCHANGED <<recVars, codecVars, gameVars, detVars, viewVars, genVars, timingVars>>
  \/ ConnectResolved /\ UNCHANGED <<recVars, codecVars, gameVars, detVars, viewVars, genVars, timingVars>>
  \/ DisconnectClick /\ UNCHANGED <<recVars, codecVars, gameVars, detVars, viewVars, genVars, timingVars>>
  \/ StartClick /\ UNCHANGED <<recVars, codecVars, gameVars, detVars, viewVars, genVars, timingVars>>
  \/ RetryClick /\ UNCHANGED <<recVars, codecVars, gameVars, detVars, viewVars, genVars, timingVars>>
  \/ handleGameOver /\ UNCHANGED <<recVars, codecVars, gameVars, detVars, viewVars, genVars, timingVars>>
  \/ handleScoreChange /\ UNCHANGED <<recVars, codecVars, gameVars, detVars, viewVars, genVars, timingVars>>
  \/ SubmitClick /\ UNCHANGED <<recVars, codecVars, gameVars, detVars, viewVars, genVars, timingVars>>
  \/ SubmitResolved /\ UNCHANGED <<recVars, codecVars, gameVars, detVars, viewVars, genVars, timingVars>>
  \/ TimerFires /\ UNCHANGED <<recVars, codecVars, gameVars, detVars, viewVars, genVars, timingVars>>
  \/ handleViewLeaderboard /\ UNCHANGED <<recVars, codecVars, gameVars, detVars, viewVars, genVars, timingVars>>
  \/ handleCloseLeaderboard /\ UNCHANGED <<recVars, codecVars, gameVars, detVars, viewVars, genVars, timingVars>>

SpecApp == InitApp /\ [][NextApp]_vars

(***************************************************************************)
(* Claims about the score store.                                           *)
(***************************************************************************)
\* the greatest score among the submissions, 0 when there is none
RECURSIVE GreatestScore(_, _)
GreatestScore(subs, n) ==
  IF n = 0 THEN 0
  ELSE LET rest == GreatestScore(subs, n - 1) IN
         IF subs[n].score > rest THEN subs[n].score ELSE rest

\* the high scores stored for wallet a, in local storage and by the contract
StoredHighScores(a) ==
  (IF localStorage[a] # <<>> THEN {parsePlayer(localStorage[a]).high_score.v} ELSE {})
    \cup (IF chain[a].present THEN {chain[a].high_score} ELSE {})

\* C16: over the successful saveScore and registerPlayer calls of a wallet,
\* the stored high_score is at every moment the greatest score submitted so
\* far (0 before the first submission); as submissions only accumulate, it
\* never decreases, and a submission changes it only when strictly greater.
C16_HighScoreProtection ==
  \A a \in Addresses :
    /\ saved[a] # <<>> => StoredHighScores(a) # {}
    /\ \A h \in StoredHighScores(a) : h = GreatestScore(saved[a], Len(saved[a]))

\* a wallet on the local-storage fallback submitted a score and then a lower
\* one, registered a display name in between or after, and still holds the first
C16_Witness ==
  \E a \in Addresses :
    /\ Len(saved[a]) >= 2
    /\ saved[a][1].score > saved[a][2].score
    /\ localStorage[a] # <<>>
    /\ parsePlayer(localStorage[a]).high_score.v = saved[a][1].score
    /\ parsePlayer(localStorage[a]).display_name.t = "string"

\* the replay of the last submission of wallet a that carried one
RECURSIVE LastReplay(_, _)
LastReplay(subs, n) ==
  IF n = 0 THEN Null
  ELSE IF subs[n].replay.t = "text" THEN subs[n].replay
  ELSE LastReplay(subs, n - 1)

\* C17: once a saveScore(score, replay) of the connected wallet has returned
\* true, getPlayer for that wallet returns a player whose replay_data holds
\* the submitted replay, on the backend path and on the local-storage fallback.
C17_ReplayRetrieved ==
  \A a \in Addresses :
    LET submitted == LastReplay(saved[a], Len(saved[a])) IN
      (walletAddress = a /\ submitted.t = "text") =>
        /\ PlayerOf(a).t = "object"
        /\ PlayerOf(a).v.replay_data.t = "text"
        /\ PlayerOf(a).v.replay_data.v = submitted.v


(***************************************************************************)
(* Claims about the App.                                                   *)
(***************************************************************************)
\* C18: whatever is clicked and whatever the game and the timers call back,
\* the App is in the state 'playing' only while a wallet is connected, in the
\* App's own state and in the lineraClient.
C18_WalletRequired ==
  gameState = "playing" => walletConnected /\ walletAddress # 0


(***************************************************************************)
(* Claims about the player's position.                                     *)
(***************************************************************************)
\* the first k queued moves
FirstMoves(k) == SubSeq(moves, 1, k)
\* where the player stands once the first k queued moves are done
PositionAfter(k) ==
  FinalPositions(FirstMoves(k), [lane |-> currentLane, column |-> currentColumn])

\* C19: after any calls of move and any animation frames, the column is in
\* 0 .. columns - 1 and the lane is not negative, for the player's position
\* and for the position after each of the queued moves.
C19_PositionBounds ==
  \A k \in 0..Len(moves) :
    /\ 0 <= PositionAfter(k).column /\ PositionAfter(k).column < columns
    /\ PositionAfter(k).lane >= 0

\* the player has walked to the left edge of the first lane, where both a
\* left and a backward would leave the board, or to the right edge
C19_Witness ==
  /\ ~gameOver
  /\ moves = <<>>
  /\ currentLane = 0
  /\ currentColumn \in {0, columns - 1}

LaneBy(mv, l) == CASE mv = "forward" -> l + 1 [] mv = "backward" -> l - 1 [] OTHER -> l
ColumnBy(mv, c) == CASE mv = "left" -> c - 1 [] mv = "right" -> c + 1 [] OTHER -> c

\* C21: accepted moves are applied in the order they were accepted, one at a
\* time: a step either leaves the queue and the position alone, or appends
\* one move to the end of the queue and leaves the position alone, or removes
\* the head of the queue and moves the position by exactly that move.
C21_QueueOrder ==
  [][ \/ /\ moves' = moves
         /\ currentLane' = currentLane /\ currentColumn' = currentColumn
      \/ /\ \E direction \in Directions : moves' = Append(moves, direction)
         /\ currentLane' = currentLane /\ currentColumn' = currentColumn
      \/ /\ moves # <<>>
         /\ moves' = Tail(moves)
         /\ currentLane' = LaneBy(Head(moves), currentLane)
         /\ currentColumn' = ColumnBy(Head(moves), currentColumn) ]_vars

\* a first move has been applied while two different moves, accepted before
\* it completed or right after, wait behind it
C21_Witness ==
  /\ ~gameOver
  /\ Len(moves) = MaxQueue
  /\ moves[1] # moves[2]
  /\ stepStartTimestamp # 0
  /\ currentLane + currentColumn # columns \div 2


\* C22: a move changes the lane or the column at its completion only: at the
\* first frame whose timestamp is more than 200 ms after the step began the
\* index changes by exactly one unit of the head move, and at every other
\* frame, and at every key press, lane and column stay as they are.
C22_AtomicCompletion ==
  [][ LET began == IF startMoving THEN previousTimestamp' ELSE stepStartTimestamp
          due == /\ previousTimestamp' # previousTimestamp
                 /\ began # 0
                 /\ previousTimestamp' - began > 200
      IN  IF due
            THEN /\ moves # <<>>
                 /\ currentLane' = LaneBy(Head(moves), currentLane)
                 /\ currentColumn' = ColumnBy(Head(moves), currentColumn)
                 /\ currentLane' # currentLane \/ currentColumn' # currentColumn
            ELSE /\ currentLane' = currentLane
                 /\ currentColumn' = currentColumn ]_vars

\* a frame fell in the middle of a step, 125 ms after it began, with an
\* earlier move already applied
C22_Witness ==
  /\ ~gameOver
  /\ moves # <<>>
  /\ stepStartTimestamp # 0
  /\ previousTimestamp - stepStartTimestamp = 125
  /\ currentLane > 0


\* the player, 15 units to either side of its middle, overlaps a vehicle of
\* its lane, 60 units to either side for a car and 105 for a truck
Collides ==
  LET l == LaneAt(lanes, currentLane)
      reach == IF l.type = "car" THEN 15 + 60 ELSE 15 + 105
  IN  /\ l.type \in {"car", "truck"}
      /\ \E k \in 1..Len(l.vehicles) :
           /\ chickenX - l.vehicles[k] < reach * XScale
           /\ l.vehicles[k] - chickenX < reach * XScale

\* C23: at every frame whose hit test finds the player in a car or truck lane
\* overlapping a vehicle, the session is over and the game-over callback is
\* given the current lane; at every other frame, field and forest lanes
\* included, and at every key press, no collision is reported.
C23_Collision ==
  [][ IF previousTimestamp' # previousTimestamp /\ Collides'
        THEN /\ gameOver'
             /\ Len(gameOverCalls') > Len(gameOverCalls)
             /\ SubSeq(gameOverCalls', 1, Len(gameOverCalls)) = gameOverCalls
             /\ \A i \in Len(gameOverCalls) + 1 .. Len(gameOverCalls') :
                  gameOverCalls'[i] = currentLane'
        ELSE /\ gameOverCalls' = gameOverCalls
             /\ gameOver' = gameOver ]_vars

\* the player was hit in a lane it had walked into, by a vehicle whose
\* extent does not reach the player's middle
C23_Witness ==
  /\ gameOver
  /\ currentLane > 0
  /\ gameOverCalls # <<>>
  /\ gameOverCalls[1] = currentLane
  /\ LaneAt(lanes, currentLane).type \in {"car", "truck"}
  /\ LET l == LaneAt(lanes, currentLane)
         half == IF l.type = "car" THEN 60 ELSE 105
     IN  \A k \in 1..Len(l.vehicles) :
           \/ chickenX - l.vehicles[k] >= half * XScale
           \/ l.vehicles[k] - chickenX >= half * XScale

(***************************************************************************)
(* Claims about the rows of the board.                                     *)
(***************************************************************************)
\* the lane the player is projected to stand in once the first k moves of
\* the queue mvs are done, starting in lane l
ProjectedLane(mvs, l, k) ==
  l + Cardinality({j \in 1..k : mvs[j] = "forward"})
    - Cardinality({j \in 1..k : mvs[j] = "backward"})

\* row i is stored at position i
RowsInPlace(ls) == \A i \in 1..Len(ls) : ls[i].index = i - 1

\* the rows that the hit test and the legality check of the next key press
\* read, whatever its direction is, are stored
RowsRead(ls, l, mvs) ==
  LET final == ProjectedLane(mvs, l, Len(mvs)) IN
    /\ 0 <= l /\ l < Len(ls)
    /\ 0 <= final /\ final + 1 < Len(ls)

C28_TerminalOnce ==
  [][ /\ ~gameOver /\ gameOver' => Len(gameOverCalls') = Len(gameOverCalls) + 1
      /\ gameOver => /\ gameOverCalls' = gameOverCalls
                     /\ reportedScore' = reportedScore
                     /\ currentLane' = currentLane
                     /\ currentColumn' = currentColumn ]_vars


(***************************************************************************)
(* Claims about the delayed switch to the leaderboard.                     *)
(***************************************************************************)
\* C30: the switch to the leaderboard scheduled after a successful score
\* submission never interrupts a game in progress: when the timer fires
\* while the App is in 'playing', the App remains in 'playing'.
C30_TimerKeepsPlaying ==
  [][ timers' < timers /\ gameState = "playing" => gameState' = "playing" ]_vars


(***************************************************************************)
(* Claims about the generator's state.                                     *)
(***************************************************************************)
\* getSeed(): SeededRandom.ts:69-71
getSeed(g) == gens[g]

\* C26: the generator state is a 32-bit unsigned integer at all times: after
\* construction and after any draws and resets, 0 <= getSeed() < 2^32.
C26_StateIsWord ==
  \A g \in Generators :
    /\ ~getSeed(g).neg
    /\ getSeed(g).wraps = 0
    /\ getSeed(g).hi \in 0..(Half - 1)
    /\ getSeed(g).lo \in 0..(Half - 1)


(***************************************************************************)
(* Claims about the recorder's artifacts and its own codec.                *)
(***************************************************************************)
\* the last call was a stop that returned an artifact
StopReturned ==
  /\ calls # <<>>
  /\ calls[Len(calls)].op = "stop"
  /\ thrown = NoError

\* C29: every artifact the recorder produces, whatever the calls of start
\* (with or without a seed), recordInput and stop were: when stop returns
\* an artifact, it passes validate and is accepted by
\* deserialize(serialize(artifact)).
C29_ArtifactsAccepted ==
  StopReturned =>
    LET o == calls[Len(calls)].ret IN
      /\ validate(JsRecording(o)) = "true"
      /\ deserialize(serialize(JsRecording(o))).thrown = NoError

\* stop has returned the artifact of a session started with a seed of its
\* own, with two inputs recorded at different offsets
C29_Witness ==
  /\ StopReturned
  /\ LET a == recordings[calls[Len(calls)].ret]
         evs == arrays[a.inputs]
     IN  /\ a.seed # a.startTime
         /\ Len(evs) = 2
         /\ evs[1].timestamp < evs[2].timestamp


(***************************************************************************)
(* Claims about the playback of a stored recording.                        *)
(***************************************************************************)
\* the actions of the inputs of the recording the viewer holds
RecordedActions ==
  IF viewerRecording.t = "object" /\ viewerRecording.v.inputs.t = "array"
    THEN [k \in 1..Len(viewerRecording.v.inputs.v) |->
            viewerRecording.v.inputs.v[k].v.action.v]
    ELSE <<>>

\* where a player that starts a session stands after the moves mvs
PositionFromStart(mvs) ==
  FinalPositions(mvs, [lane |-> 0, column |-> columns \div 2])

\* C25: while a stored recording is played back, the moves the game applies
\* are the recording's inputs in recorded order: the queue holds consecutive
\* inputs of the recording, and the position the queue leads to is the
\* position that some first n inputs of the recording lead to from the start.
C25_ReplayAppliesRecording ==
  replayState = "playing" =>
    \E n \in Len(moves)..Len(RecordedActions) :
      /\ moves = SubSeq(RecordedActions, n - Len(moves) + 1, n)
      /\ PositionAfter(Len(moves)) = PositionFromStart(SubSeq(RecordedActions, 1, n))

(***************************************************************************)
(* Two sessions on one board with the same timed key presses               *)
(***************************************************************************)
InitTiming == RecInit /\ CodecOff /\ Mount /\ DetOff /\ ViewOff /\ GenOff /\ ClientOff /\ AppOff /\ TimingInit

NextTiming ==
  \/ TimedKey /\ UNCHANGED <<recVars, codecVars, detVars, viewVars, genVars, clientVars, appVars>>
  \/ FirstSessionFrame /\ UNCHANGED <<recVars, codecVars, detVars, viewVars, genVars, clientVars, appVars>>
  \/ EndFirst /\ UNCHANGED <<recVars, codecVars, detVars, viewVars, genVars, clientVars, appVars>>
  \/ FeedKey /\ UNCHANGED <<recVars, codecVars, detVars, viewVars, genVars, clientVars, appVars>>
  \/ SecondSessionFrame /\ UNCHANGED <<recVars, codecVars, detVars, viewVars, genVars, clientVars, appVars>>

SpecTiming == InitTiming /\ [][NextTiming]_vars

\* the second session has been given every key press and stands at the
\* frame the first was looked at, or its loop has ended before
Compared ==
  /\ session = 2
  /\ fed = Len(keyLog)
  /\ previousTimestamp = firstOutcome.at \/ ~frameRequested

\* C24: the outcome of a session is independent of frame timing. Two
\* sessions on the same board, given the same key presses at the same
\* offsets, have completed the same moves at the same times, reaching the
\* same lanes and columns, and have the same terminal outcome, however
\* their frames divided the time.
C24_FrameTimingIndependent ==
  Compared =>
    /\ completions = firstOutcome.completions
    /\ gameOver = firstOutcome.over
    /\ (gameOver => gameOverCalls[1] = firstOutcome.calls[1])

=========================================================================
